---- MODULE Spec2Model ----
(***************************************************************************)
(* Liveness analysis and live-range construction of the backtracking       *)
(* register allocator: Env::compute_liveness and its helpers in            *)
(* src/ion/liveranges.rs.                                                  *)
(*                                                                         *)
(* Representation.  A ProgPoint is the number 2*inst + phase (Before = 0,  *)
(* After = 1), so next()/prev() are +1/-1.  Instructions, blocks, vregs    *)
(* and operand slots are numbered from 0 as in the source; a sequence that *)
(* the source indexes by i is read at i + 1.  A LiveRangeIndex is the      *)
(* position of the record in the arena `ranges`, counted from 1, and 0 is  *)
(* LiveRangeIndex::invalid().  Register classes and spill weights do not   *)
(* enter any decision of compute_liveness and are left out of the records. *)
(***************************************************************************)
EXTENDS Integers, Sequences, FiniteSets

VARIABLES
    func,                   \* the input Function (never changes)
    pc,                     \* position inside compute_liveness
    result,                 \* "none" | "Ok" | "EntryLivein" | "panic"
    panic,                  \* "none", or the assertion that failed
    liveins, liveouts,      \* per block: set of vreg indices
    workqueue, workqueue_set,
    livein_iterations,      \* stats.livein_iterations
    cur_block, cur_inst,    \* loop variables of the range-construction scan
    live,                   \* the scan's local live set
    vreg_ranges,            \* per vreg: current LiveRangeIndex (0 = invalid)
    ranges,                 \* arena of LiveRange records
    vregs,                  \* per vreg: its list of LiveRangeListEntry
    blockparam_ins, blockparam_outs,
    prog_move_srcs, prog_move_dsts, prog_move_merges,
    inserted_moves,         \* edits made through insert_move
    safepoints, safepoints_per_vreg,
    clobbers,
    pregs,                  \* per preg: keys of its allocation map
    multi_fixed_reg_fixups,
    spill_weight,           \* a SpillWeight: the 32 bits of its f32
    packed                  \* the u16 kept in Use.weight

vars == <<func, pc, result, panic, liveins, liveouts, workqueue, workqueue_set,
          livein_iterations, cur_block, cur_inst, live, vreg_ranges, ranges,
          vregs, blockparam_ins, blockparam_outs, prog_move_srcs,
          prog_move_dsts, prog_move_merges, inserted_moves, safepoints,
          safepoints_per_vreg, clobbers, pregs, multi_fixed_reg_fixups,
          spill_weight, packed>>

----------------------------------------------------------------------------
(* Bounds of the checked input space.                                      *)

\* Most instructions a function has besides its block terminators.
MaxBody == 2

\* The vregs and pregs of the checked functions (preg 0 stands for no preg).
VRegs == 0..3
PRegs == {1, 2}

SLOT_NONE == 255

----------------------------------------------------------------------------
(* Program points and code ranges.                                         *)

Before(inst) == 2 * inst
After(inst) == 2 * inst + 1
PNext(p) == p + 1
PPrev(p) == p - 1
PInst(p) == p \div 2
PPos(p) == IF p % 2 = 0 THEN "Before" ELSE "After"

CodeRange(from, to) == [from |-> from, to |-> to]
ContainsPoint(r, p) == r.from <= p /\ p < r.to

----------------------------------------------------------------------------
(* Operands and instructions of the input.                                 *)

Any == [t |-> "Any", r |-> 0]
Reg == [t |-> "Reg", r |-> 0]
Stack == [t |-> "Stack", r |-> 0]
FixedReg(p) == [t |-> "FixedReg", r |-> p]
Reuse(i) == [t |-> "Reuse", r |-> i]

Operand(v, c, k, p) == [vreg |-> v, constraint |-> c, kind |-> k, pos |-> p]

Inst(ops, mv, br, cl, sp) ==
    [ops |-> ops, is_move |-> mv, is_branch |-> br, clobbers |-> cl,
     safepoint |-> sp]

----------------------------------------------------------------------------
(* The input Function and its CFG info.  A function is assembled from a    *)
(* CFG shape (successors, blockparams and branch arguments per block), a   *)
(* list of body instructions and the block each body instruction lies in.  *)
(* Blocks are laid out in index order and every block ends in its          *)
(* terminator: a branch when it has successors, a return otherwise.        *)

UseOp(v) == Operand(v, Any, "Use", "Early")

RECURSIVE MapUse(_)
MapUse(vs) == IF vs = <<>> THEN <<>> ELSE <<UseOp(Head(vs))>> \o MapUse(Tail(vs))

Terminator(sh, b) ==
    IF sh.succs[b + 1] = <<>>
    THEN Inst(<<>>, FALSE, FALSE, <<>>, FALSE)
    ELSE Inst(MapUse(sh.cond[b + 1] \o sh.args[b + 1]), FALSE, TRUE, <<>>, FALSE)

BodyOf(body, place, b) ==
    LET F[i \in 0..Len(body)] ==
            IF i = 0 THEN <<>>
            ELSE IF place[i] = b THEN Append(F[i - 1], body[i]) ELSE F[i - 1]
    IN F[Len(body)]

BlockInsts(sh, body, place, b) ==
    (IF b = 0 THEN sh.pre ELSE <<>>) \o BodyOf(body, place, b) \o <<Terminator(sh, b)>>

RECURSIVE FlatInsts(_, _, _, _)
FlatInsts(sh, body, place, b) ==
    IF b >= Len(sh.succs) THEN <<>>
    ELSE BlockInsts(sh, body, place, b) \o FlatInsts(sh, body, place, b + 1)

RECURSIVE CountIn(_, _)
CountIn(s, x) ==
    IF s = <<>> THEN 0 ELSE (IF Head(s) = x THEN 1 ELSE 0) + CountIn(Tail(s), x)

RECURSIVE Repeat(_, _)
Repeat(x, n) == IF n = 0 THEN <<>> ELSE <<x>> \o Repeat(x, n - 1)

\* block_preds(b): every block p once per edge p -> b, in block order.
RECURSIVE PredsFrom(_, _, _)
PredsFrom(sh, b, p) ==
    IF p >= Len(sh.succs) THEN <<>>
    ELSE Repeat(p, CountIn(sh.succs[p + 1], b)) \o PredsFrom(sh, b, p + 1)

MkFunc(sh, body, place, refs, pinned) ==
    LET nb == Len(sh.succs)
        first(b) == Len(FlatInsts(sh, body, place, 0)) - Len(FlatInsts(sh, body, place, b))
    IN [insts |-> FlatInsts(sh, body, place, 0),
        blocks |-> [b \in 0..(nb - 1) |->
                      [first |-> first(b),
                       last |-> first(b) + Len(BlockInsts(sh, body, place, b)) - 1,
                       params |-> sh.params[b + 1],
                       succs |-> sh.succs[b + 1],
                       preds |-> PredsFrom(sh, b, 0),
                       arg_offset |-> Len(sh.cond[b + 1])]],
        reftype_vregs |-> refs,
        pinned |-> pinned]

\* The capability set of the Function trait, read off `func`.
num_blocks == Cardinality(DOMAIN func.blocks)
num_insts == Len(func.insts)
entry_block == 0
Blocks == DOMAIN func.blocks
InstAt(inst) == func.insts[inst + 1]
inst_operands(inst) == InstAt(inst).ops
inst_clobbers(inst) == InstAt(inst).clobbers
is_move(inst) == InstAt(inst).is_move
is_branch(inst) == InstAt(inst).is_branch
requires_refs_on_stack(inst) == InstAt(inst).safepoint
block_params(b) == func.blocks[b].params
block_succs(b) == func.blocks[b].succs
block_preds(b) == func.blocks[b].preds
branch_blockparam_arg_offset(b) == func.blocks[b].arg_offset
is_pinned_vreg(v) == func.pinned[v]
is_pinned(v) == func.pinned[v] # 0
is_ref(v) == \E k \in 1..Len(func.reftype_vregs) : func.reftype_vregs[k] = v

\* cfginfo
block_entry(b) == Before(func.blocks[b].first)
block_exit(b) == After(func.blocks[b].last)
insn_block(inst) ==
    CHOOSE b \in Blocks : func.blocks[b].first <= inst /\ inst <= func.blocks[b].last

RECURSIVE Dfs(_, _)
RECURSIVE DfsSeq(_, _)
Dfs(b, st) ==
    IF b \in st.visited THEN st
    ELSE LET st2 == DfsSeq(block_succs(b),
                           [visited |-> st.visited \cup {b}, out |-> st.out])
         IN [visited |-> st2.visited, out |-> Append(st2.out, b)]
DfsSeq(ss, st) == IF ss = <<>> THEN st ELSE DfsSeq(Tail(ss), Dfs(Head(ss), st))

postorder == Dfs(entry_block, [visited |-> {}, out |-> <<>>]).out

----------------------------------------------------------------------------
(* Dataflow solver: the backward transfer of one block.                    *)

OperandStep(l, op) ==
    IF op.kind \in {"Use", "Mod"} THEN l \cup {op.vreg} ELSE l \ {op.vreg}

RECURSIVE OperandsPass(_, _, _)
OperandsPass(l, ops, p) ==
    IF ops = <<>> THEN l
    ELSE OperandsPass(IF Head(ops).pos = p THEN OperandStep(l, Head(ops)) ELSE l,
                      Tail(ops), p)

\* Variant: a move whose source and destination are one vreg is skipped.
MoveStep_skipsame(l, inst) ==
    IF is_move(inst) /\ inst_operands(inst)[1].vreg # inst_operands(inst)[2].vreg
    THEN (l \ {inst_operands(inst)[2].vreg}) \cup {inst_operands(inst)[1].vreg}
    ELSE l

MoveStep(l, inst) ==
    IF is_move(inst)
    THEN (l \ {inst_operands(inst)[2].vreg}) \cup {inst_operands(inst)[1].vreg}
    ELSE l

InstTransfer(l, inst) ==
    OperandsPass(OperandsPass(MoveStep(l, inst), inst_operands(inst), "Late"),
                 inst_operands(inst), "Early")

RECURSIVE InstsTransfer(_, _, _)
InstsTransfer(l, inst, first) ==
    IF inst < first THEN l ELSE InstsTransfer(InstTransfer(l, inst), inst - 1, first)

SeqSet(s) == {s[k] : k \in 1..Len(s)}

BlockTransfer(b, l) ==
    InstsTransfer(l, func.blocks[b].last, func.blocks[b].first) \ SeqSet(block_params(b))

\* Variant: a predecessor's liveout is overwritten instead of united.
RECURSIVE PredsUnion_assign(_, _, _)
PredsUnion_assign(st, preds, lv) ==
    IF preds = <<>> THEN st
    ELSE LET pred == Head(preds)
             changed == ~(lv \subseteq st.liveouts[pred])
             st1 == [st EXCEPT !.liveouts[pred] = lv]
             st2 == IF changed /\ pred \notin st.workqueue_set
                    THEN [st1 EXCEPT !.workqueue_set = @ \cup {pred},
                                     !.workqueue = Append(@, pred)]
                    ELSE st1
         IN PredsUnion_assign(st2, Tail(preds), lv)

\* Variant: the union into the predecessors' liveouts enqueues nothing.
RECURSIVE PredsUnion_noqueue(_, _, _)
PredsUnion_noqueue(st, preds, lv) ==
    IF preds = <<>> THEN st
    ELSE PredsUnion_noqueue([st EXCEPT !.liveouts[Head(preds)] = @ \cup lv],
                            Tail(preds), lv)

\* The loop over block_preds(block): union `lv` into each liveout and enqueue
\* the predecessor when its set changed and it is not queued.
RECURSIVE PredsUnion(_, _, _)
PredsUnion(st, preds, lv) ==
    IF preds = <<>> THEN st
    ELSE LET pred == Head(preds)
             changed == ~(lv \subseteq st.liveouts[pred])
             st1 == [st EXCEPT !.liveouts[pred] = @ \cup lv]
             st2 == IF changed /\ pred \notin st.workqueue_set
                    THEN [st1 EXCEPT !.workqueue_set = @ \cup {pred},
                                     !.workqueue = Append(@, pred)]
                    ELSE st1
         IN PredsUnion(st2, Tail(preds), lv)

----------------------------------------------------------------------------
(* Entity store and range builder.  The operators below take and return an *)
(* environment record `e` holding the fields of Env they touch; `e.ret` is *)
(* the value the call returns and `e.panic` names a failed assertion, after *)
(* which nothing more of the call sequence is executed.                     *)

Env ==
    [ranges |-> ranges, vregs |-> vregs, vreg_ranges |-> vreg_ranges,
     live |-> live, prog_move_srcs |-> prog_move_srcs,
     prog_move_dsts |-> prog_move_dsts, prog_move_merges |-> prog_move_merges,
     inserted_moves |-> inserted_moves, safepoints |-> safepoints,
     safepoints_per_vreg |-> safepoints_per_vreg, clobbers |-> clobbers,
     pregs |-> pregs, blockparam_ins |-> blockparam_ins,
     blockparam_outs |-> blockparam_outs, panic |-> panic, ret |-> 0]

Panicked(e) == e.panic # "none"
Fail(e, what) == [e EXCEPT !.panic = what]

LiveRange(range) == [range |-> range, vreg |-> -1, uses |-> <<>>, StartsAtDef |-> FALSE]

create_liverange(e, range) ==
    [e EXCEPT !.ranges = Append(@, LiveRange(range)), !.ret = Len(e.ranges) + 1]

\* `from` of the range most recently added to the vreg's list.
LastFrom(e, vreg) ==
    e.ranges[e.vregs[vreg].ranges[Len(e.vregs[vreg].ranges)].index].range.from

\* Variant: extending the last range overwrites its whole range.
add_liverange_to_vreg_replace(e, vreg, range) ==
    IF Panicked(e) THEN e
    ELSE IF ~(e.vregs[vreg].ranges = <<>> \/ range.to <= LastFrom(e, vreg))
    THEN Fail(e, "add_liverange_to_vreg")
    ELSE IF e.vregs[vreg].ranges = <<>> \/ range.to < LastFrom(e, vreg)
    THEN LET c == create_liverange(e, range)
             lr == c.ret
         IN [c EXCEPT !.ranges[lr].vreg = vreg,
                      !.vregs[vreg].ranges = Append(@, [range |-> range, index |-> lr])]
    ELSE LET lr == e.vregs[vreg].ranges[Len(e.vregs[vreg].ranges)].index
         IN [e EXCEPT !.ranges[lr].range = range, !.ret = lr]

\* Variant: a range contiguous with the last one is stored as a new range.
add_liverange_to_vreg_nomerge(e, vreg, range) ==
    IF Panicked(e) THEN e
    ELSE IF ~(e.vregs[vreg].ranges = <<>> \/ range.to <= LastFrom(e, vreg))
    THEN Fail(e, "add_liverange_to_vreg")
    ELSE LET c == create_liverange(e, range)
             lr == c.ret
         IN [c EXCEPT !.ranges[lr].vreg = vreg,
                      !.vregs[vreg].ranges = Append(@, [range |-> range, index |-> lr])]

add_liverange_to_vreg(e, vreg, range) ==
    IF Panicked(e) THEN e
    ELSE IF ~(e.vregs[vreg].ranges = <<>> \/ range.to <= LastFrom(e, vreg))
    THEN Fail(e, "add_liverange_to_vreg")
    ELSE IF e.vregs[vreg].ranges = <<>> \/ range.to < LastFrom(e, vreg)
    THEN LET c == create_liverange(e, range)
             lr == c.ret
         IN [c EXCEPT !.ranges[lr].vreg = vreg,
                      !.vregs[vreg].ranges = Append(@, [range |-> range, index |-> lr])]
    ELSE LET lr == e.vregs[vreg].ranges[Len(e.vregs[vreg].ranges)].index
         IN [e EXCEPT !.ranges[lr].range.from = range.from, !.ret = lr]

Use(operand, pos, slot) == [operand |-> operand, pos |-> pos, slot |-> slot]

insert_use_into_liverange(e, into, u) ==
    IF Panicked(e) THEN e
    ELSE IF into \notin 1..Len(e.ranges) THEN Fail(e, "index out of bounds")
    ELSE [e EXCEPT !.ranges[into].uses = Append(@, u)]

add_liverange_to_preg(e, range, reg) ==
    IF Panicked(e) THEN e ELSE [e EXCEPT !.pregs[reg] = @ \cup {range}]

insert_move(e, pos, prio, from, to, to_vreg) ==
    IF Panicked(e) THEN e
    ELSE [e EXCEPT !.inserted_moves =
              Append(@, [pos |-> pos, prio |-> prio, from |-> from, to |-> to,
                         to_vreg |-> to_vreg])]

\* self.ranges[lr].range.from = p
SetFrom(e, lr, p) ==
    IF Panicked(e) THEN e
    ELSE IF lr \notin 1..Len(e.ranges) THEN Fail(e, "index out of bounds")
    ELSE [e EXCEPT !.ranges[lr].range.from = p]

\* Variant: the trim at a def starts the range one point after the def.
TrimToDef_next(e, lr, b, pos) ==
    IF Panicked(e) THEN e
    ELSE IF lr \notin 1..Len(e.ranges) THEN Fail(e, "index out of bounds")
    ELSE [e EXCEPT !.ranges[lr].range.from = IF @ = block_entry(b) THEN PNext(pos) ELSE @,
                   !.ranges[lr].StartsAtDef = TRUE]

\* The trim at a def: the range starts at `pos` if it started at block entry.
TrimToDef(e, lr, b, pos) ==
    IF Panicked(e) THEN e
    ELSE IF lr \notin 1..Len(e.ranges) THEN Fail(e, "index out of bounds")
    ELSE [e EXCEPT !.ranges[lr].range.from = IF @ = block_entry(b) THEN pos ELSE @,
                   !.ranges[lr].StartsAtDef = TRUE]

SetLive(e, v, on) ==
    IF Panicked(e) THEN e
    ELSE [e EXCEPT !.live = IF on THEN @ \cup {v} ELSE @ \ {v}]

SetVRegRange(e, v, lr) ==
    IF Panicked(e) THEN e ELSE [e EXCEPT !.vreg_ranges[v] = lr]

----------------------------------------------------------------------------
(* Range construction: the start of a block's scan.                        *)

Min(S) == CHOOSE x \in S : \A y \in S : x <= y

\* for vreg in live.iter(): open a range over the whole block.
RECURSIVE SeedLiveouts(_, _, _)
SeedLiveouts(e, b, todo) ==
    IF todo = {} \/ Panicked(e) THEN e
    ELSE LET vreg == Min(todo)
             a == add_liverange_to_vreg(
                      e, vreg, CodeRange(block_entry(b), PNext(block_exit(b))))
         IN SeedLiveouts(SetVRegRange(a, vreg, a.ret), b, todo \ {vreg})

RECURSIVE SetBlockparams(_, _, _)
SetBlockparams(e, b, params) ==
    IF params = <<>> THEN e
    ELSE SetBlockparams([e EXCEPT !.vregs[Head(params)].blockparam = b], b, Tail(params))

\* The inner loop over block_params(succ); e.ret carries the operand index i.
RECURSIVE OutsForParams(_, _, _, _, _)
OutsForParams(e, b, succ, params, operands) ==
    IF params = <<>> \/ Panicked(e) THEN e
    ELSE IF e.ret + 1 > Len(operands) THEN Fail(e, "index out of bounds")
    ELSE OutsForParams(
             [e EXCEPT !.blockparam_outs =
                           Append(@, <<operands[e.ret + 1].vreg, b, succ, Head(params)>>),
                       !.ret = @ + 1],
             b, succ, Tail(params), operands)

RECURSIVE OutsForSuccs(_, _, _, _)
OutsForSuccs(e, b, succs, operands) ==
    IF succs = <<>> \/ Panicked(e) THEN e
    ELSE OutsForSuccs(
             OutsForParams(e, b, Head(succs), block_params(Head(succs)), operands),
             b, Tail(succs), operands)

\* Variant: the branch arguments are read from operand 0.
BlockparamOuts_nooffset(e, b) ==
    IF Panicked(e) \/ ~is_branch(func.blocks[b].last) THEN e
    ELSE OutsForSuccs([e EXCEPT !.ret = 0],
                      b, block_succs(b), inst_operands(func.blocks[b].last))

BlockparamOuts(e, b) ==
    IF Panicked(e) \/ ~is_branch(func.blocks[b].last) THEN e
    ELSE OutsForSuccs([e EXCEPT !.ret = branch_blockparam_arg_offset(b)],
                      b, block_succs(b), inst_operands(func.blocks[b].last))

BeginBlock(e, b) ==
    BlockparamOuts(
        SetBlockparams(SeedLiveouts([e EXCEPT !.live = liveouts[b]], b, liveouts[b]),
                       b, block_params(b)),
        b)

----------------------------------------------------------------------------
(* Range construction: the end of a block's scan (its blockparams).        *)

RECURSIVE PushIns(_, _, _, _)
PushIns(e, vreg, b, preds) ==
    IF preds = <<>> THEN e
    ELSE PushIns([e EXCEPT !.blockparam_ins = Append(@, <<vreg, b, Head(preds)>>)],
                 vreg, b, Tail(preds))

RECURSIVE EndBlock(_, _, _)
EndBlock(e, b, params) ==
    IF params = <<>> \/ Panicked(e) THEN e
    ELSE LET vreg == Head(params)
             a == IF vreg \in e.live
                  THEN SetLive(e, vreg, FALSE)
                  ELSE add_liverange_to_vreg(
                           e, vreg, CodeRange(block_entry(b), PNext(block_entry(b))))
         IN EndBlock(IF Panicked(a) THEN a ELSE PushIns(a, vreg, b, block_preds(b)),
                     b, Tail(params))

----------------------------------------------------------------------------
(* Range construction: one instruction of the reverse scan.                *)

\* Variant: a clobber reserves the whole instruction.
ClobberRange_whole(inst) == CodeRange(Before(inst), Before(inst + 1))

ClobberRange(inst) == CodeRange(After(inst), Before(inst + 1))

RECURSIVE MarkClobbers(_, _, _)
MarkClobbers(e, inst, cl) ==
    IF cl = <<>> THEN e
    ELSE MarkClobbers(add_liverange_to_preg(e, ClobberRange(inst), Head(cl)),
                      inst, Tail(cl))

Clobbers(e, inst) ==
    MarkClobbers(IF Len(inst_clobbers(inst)) > 0
                 THEN [e EXCEPT !.clobbers = Append(@, inst)]
                 ELSE e,
                 inst, inst_clobbers(inst))

\* Variant: the index named by the last Reuse constraint.
RECURSIVE ReusedInput_last(_)
ReusedInput_last(ops) ==
    IF ops = <<>> THEN -1
    ELSE LET rest == ReusedInput_last(Tail(ops))
         IN IF rest # -1 THEN rest
            ELSE IF Head(ops).constraint.t = "Reuse" THEN Head(ops).constraint.r
            ELSE -1

\* The index named by the first Reuse constraint, or -1 for None.
RECURSIVE ReusedInput(_)
ReusedInput(ops) ==
    IF ops = <<>> THEN -1
    ELSE IF Head(ops).constraint.t = "Reuse" THEN Head(ops).constraint.r
    ELSE ReusedInput(Tail(ops))

\* Variant: the range created for a dead source runs through After(inst), as
\* the range of a Use at After(inst) would.
BothPinnedMove_generic(e, b, inst, src, dst) ==
    LET e1 == IF src.vreg \notin e.live
              THEN LET a == add_liverange_to_vreg(
                                e, src.vreg,
                                CodeRange(block_entry(b), PNext(After(inst))))
                   IN SetVRegRange(SetLive(a, src.vreg, TRUE), src.vreg, a.ret)
              ELSE e
        e2 == IF dst.vreg \in e1.live
              THEN SetLive(SetFrom(e1, e1.vreg_ranges[dst.vreg], After(inst)),
                           dst.vreg, FALSE)
              ELSE add_liverange_to_vreg(
                       e1, dst.vreg, CodeRange(After(inst), Before(inst + 1)))
    IN IF Panicked(e2) THEN e2
       ELSE IF src.constraint.t # "FixedReg" \/ dst.constraint.t # "FixedReg"
       THEN Fail(e2, "unreachable")
       ELSE insert_move(e2, Before(inst), "MultiFixedReg",
                        src.constraint.r, dst.constraint.r, dst.vreg)

BothPinnedMove(e, b, inst, src, dst) ==
    LET e1 == IF src.vreg \notin e.live
              THEN LET a == add_liverange_to_vreg(
                                e, src.vreg, CodeRange(block_entry(b), After(inst)))
                   IN SetVRegRange(SetLive(a, src.vreg, TRUE), src.vreg, a.ret)
              ELSE e
        e2 == IF dst.vreg \in e1.live
              THEN SetLive(SetFrom(e1, e1.vreg_ranges[dst.vreg], After(inst)),
                           dst.vreg, FALSE)
              ELSE add_liverange_to_vreg(
                       e1, dst.vreg, CodeRange(After(inst), Before(inst + 1)))
    IN IF Panicked(e2) THEN e2
       ELSE IF src.constraint.t # "FixedReg" \/ dst.constraint.t # "FixedReg"
       THEN Fail(e2, "unreachable")
       ELSE insert_move(e2, Before(inst), "MultiFixedReg",
                        src.constraint.r, dst.constraint.r, dst.vreg)

\* Variant: a live pinned source's range is cut to start at the ghost
\* operand's own point.
PinnedSrcSide_overlap(e, b, inst, src, dst, preg, progpoint) ==
    IF Panicked(e) THEN e
    ELSE IF src.vreg \in e.live
    THEN LET pinned_lr == e.vreg_ranges[src.vreg]
         IN IF pinned_lr \notin 1..Len(e.ranges) THEN Fail(e, "index out of bounds")
            ELSE LET orig_start == e.ranges[pinned_lr].range.from
                     a == SetFrom(e, pinned_lr, progpoint)
                     c == add_liverange_to_vreg(
                              a, src.vreg, CodeRange(orig_start, PPrev(progpoint)))
                     d == SetVRegRange(c, src.vreg, c.ret)
                     m == insert_move(d, After(inst), "Regular", preg, preg, dst.vreg)
                 IN insert_move(m, Before(inst + 1), "MultiFixedReg", preg, preg,
                                src.vreg)
    ELSE LET a == IF inst > PInst(block_entry(b))
                  THEN LET c == add_liverange_to_vreg(
                                    e, src.vreg,
                                    CodeRange(block_entry(b), Before(inst)))
                       IN SetLive(SetVRegRange(c, src.vreg, c.ret), src.vreg, TRUE)
                  ELSE e
         IN insert_move(a, After(inst), "BlockParam", preg, preg, dst.vreg)

\* The pinned side of a move whose source is pinned (the other vreg is a def).
PinnedSrcSide(e, b, inst, src, dst, preg, progpoint) ==
    IF Panicked(e) THEN e
    ELSE IF src.vreg \in e.live
    THEN LET pinned_lr == e.vreg_ranges[src.vreg]
         IN IF pinned_lr \notin 1..Len(e.ranges) THEN Fail(e, "index out of bounds")
            ELSE LET orig_start == e.ranges[pinned_lr].range.from
                     a == SetFrom(e, pinned_lr, PNext(progpoint))
                     c == add_liverange_to_vreg(
                              a, src.vreg, CodeRange(orig_start, PPrev(progpoint)))
                     d == SetVRegRange(c, src.vreg, c.ret)
                     m == insert_move(d, After(inst), "Regular", preg, preg, dst.vreg)
                 IN insert_move(m, Before(inst + 1), "MultiFixedReg", preg, preg,
                                src.vreg)
    ELSE LET a == IF inst > PInst(block_entry(b))
                  THEN LET c == add_liverange_to_vreg(
                                    e, src.vreg,
                                    CodeRange(block_entry(b), Before(inst)))
                       IN SetLive(SetVRegRange(c, src.vreg, c.ret), src.vreg, TRUE)
                  ELSE e
         IN insert_move(a, After(inst), "BlockParam", preg, preg, dst.vreg)

\* The pinned side of a move whose destination is pinned (the other is a use).
PinnedDstSide(e, b, inst, src, dst, preg, progpoint) ==
    IF Panicked(e) THEN e
    ELSE IF dst.vreg \in e.live
    THEN insert_move(
             SetLive(SetFrom(e, e.vreg_ranges[dst.vreg], PNext(progpoint)),
                     dst.vreg, FALSE),
             Before(inst + 1), "PostRegular", preg, preg, dst.vreg)
    ELSE e

OnePinnedMove(e, b, inst, src, dst) ==
    LET src_pinned == is_pinned(src.vreg)
        preg == IF src_pinned THEN is_pinned_vreg(src.vreg) ELSE is_pinned_vreg(dst.vreg)
        vreg == IF src_pinned THEN dst.vreg ELSE src.vreg
        kind == IF src_pinned THEN "Def" ELSE "Use"
        pos == IF src_pinned THEN "Late" ELSE "Early"
        progpoint == After(inst)
        operand == Operand(vreg, FixedReg(preg), kind, pos)
        e1 == IF vreg \notin e.live
              THEN add_liverange_to_vreg(
                       e, vreg,
                       CodeRange(IF kind = "Use" THEN block_entry(b) ELSE progpoint,
                                 PNext(progpoint)))
              ELSE [e EXCEPT !.ret = e.vreg_ranges[vreg]]
        lr == e1.ret
        e2 == insert_use_into_liverange(e1, lr, Use(operand, progpoint, SLOT_NONE))
        e3 == IF kind = "Def"
              THEN TrimToDef(SetLive(e2, vreg, FALSE), lr, b, progpoint)
              ELSE SetVRegRange(SetLive(e2, vreg, TRUE), vreg, lr)
    IN IF kind = "Def"
       THEN PinnedSrcSide(e3, b, inst, src, dst, preg, progpoint)
       ELSE PinnedDstSide(e3, b, inst, src, dst, preg, progpoint)

\* Variant: the range created for a dead source ends at After(inst).
ProgMove_srcshort(e, b, inst, src, dst) ==
    LET pos == Before(inst + 1)
        e1 == IF dst.vreg \notin e.live
              THEN add_liverange_to_vreg(e, dst.vreg, CodeRange(pos, PNext(pos)))
              ELSE [e EXCEPT !.ret = e.vreg_ranges[dst.vreg]]
        dst_lr == e1.ret
        e2 == SetVRegRange(SetLive(TrimToDef(e1, dst_lr, b, pos), dst.vreg, FALSE),
                           dst.vreg, 0)
        e3 == IF src.vreg \notin e2.live
              THEN LET a == add_liverange_to_vreg(
                                e2, src.vreg,
                                CodeRange(block_entry(b), After(inst)))
                   IN SetVRegRange(a, src.vreg, a.ret)
              ELSE [e2 EXCEPT !.ret = e2.vreg_ranges[src.vreg]]
        src_lr == e3.ret
        src_is_dead_after_move == src.vreg \notin e3.live
    IN IF Panicked(e3) THEN e3
       ELSE [e3 EXCEPT
               !.live = @ \cup {src.vreg},
               !.prog_move_srcs = Append(@, [key |-> <<src.vreg, inst>>, alloc |-> "none"]),
               !.prog_move_dsts =
                   Append(@, [key |-> <<dst.vreg, inst + 1>>, alloc |-> "none"]),
               !.prog_move_merges =
                   IF src_is_dead_after_move THEN Append(@, <<src_lr, dst_lr>>) ELSE @]

\* Variant: the source's deadness is read after the source was made live.
ProgMove_latecheck(e, b, inst, src, dst) ==
    LET pos == Before(inst + 1)
        e1 == IF dst.vreg \notin e.live
              THEN add_liverange_to_vreg(e, dst.vreg, CodeRange(pos, PNext(pos)))
              ELSE [e EXCEPT !.ret = e.vreg_ranges[dst.vreg]]
        dst_lr == e1.ret
        e2 == SetVRegRange(SetLive(TrimToDef(e1, dst_lr, b, pos), dst.vreg, FALSE),
                           dst.vreg, 0)
        e3 == IF src.vreg \notin e2.live
              THEN LET a == add_liverange_to_vreg(
                                e2, src.vreg,
                                CodeRange(block_entry(b), PNext(After(inst))))
                   IN SetVRegRange(a, src.vreg, a.ret)
              ELSE [e2 EXCEPT !.ret = e2.vreg_ranges[src.vreg]]
        src_lr == e3.ret
        e4 == SetLive(e3, src.vreg, TRUE)
        src_is_dead_after_move == src.vreg \notin e4.live
    IN IF Panicked(e4) THEN e4
       ELSE [e4 EXCEPT
               !.prog_move_srcs = Append(@, [key |-> <<src.vreg, inst>>, alloc |-> "none"]),
               !.prog_move_dsts =
                   Append(@, [key |-> <<dst.vreg, inst + 1>>, alloc |-> "none"]),
               !.prog_move_merges =
                   IF src_is_dead_after_move THEN Append(@, <<src_lr, dst_lr>>) ELSE @]

ProgMove(e, b, inst, src, dst) ==
    LET pos == Before(inst + 1)
        e1 == IF dst.vreg \notin e.live
              THEN add_liverange_to_vreg(e, dst.vreg, CodeRange(pos, PNext(pos)))
              ELSE [e EXCEPT !.ret = e.vreg_ranges[dst.vreg]]
        dst_lr == e1.ret
        e2 == SetVRegRange(SetLive(TrimToDef(e1, dst_lr, b, pos), dst.vreg, FALSE),
                           dst.vreg, 0)
        e3 == IF src.vreg \notin e2.live
              THEN LET a == add_liverange_to_vreg(
                                e2, src.vreg,
                                CodeRange(block_entry(b), PNext(After(inst))))
                   IN SetVRegRange(a, src.vreg, a.ret)
              ELSE [e2 EXCEPT !.ret = e2.vreg_ranges[src.vreg]]
        src_lr == e3.ret
        src_is_dead_after_move == src.vreg \notin e3.live
    IN IF Panicked(e3) THEN e3
       ELSE [e3 EXCEPT
               !.live = @ \cup {src.vreg},
               !.prog_move_srcs = Append(@, [key |-> <<src.vreg, inst>>, alloc |-> "none"]),
               !.prog_move_dsts =
                   Append(@, [key |-> <<dst.vreg, inst + 1>>, alloc |-> "none"]),
               !.prog_move_merges =
                   IF src_is_dead_after_move THEN Append(@, <<src_lr, dst_lr>>) ELSE @]

\* Variant: a move whose source and destination are one vreg is handled like
\* any other move.
MoveInst_noskip(e, b, inst) ==
    LET src == inst_operands(inst)[1]
        dst == inst_operands(inst)[2]
    IN IF Panicked(e) THEN e
       ELSE IF src.kind # "Use" \/ src.pos # "Early" \/ dst.kind # "Def"
               \/ dst.pos # "Late"
       THEN Fail(e, "assert_eq")
       ELSE IF is_pinned(src.vreg) /\ is_pinned(dst.vreg)
       THEN BothPinnedMove(e, b, inst, src, dst)
       ELSE IF is_pinned(src.vreg) \/ is_pinned(dst.vreg)
       THEN OnePinnedMove(e, b, inst, src, dst)
       ELSE ProgMove(e, b, inst, src, dst)

MoveInst(e, b, inst) ==
    LET src == inst_operands(inst)[1]
        dst == inst_operands(inst)[2]
    IN IF Panicked(e) \/ src.vreg = dst.vreg THEN e
       ELSE IF src.kind # "Use" \/ src.pos # "Early" \/ dst.kind # "Def"
               \/ dst.pos # "Late"
       THEN Fail(e, "assert_eq")
       ELSE IF is_pinned(src.vreg) /\ is_pinned(dst.vreg)
       THEN BothPinnedMove(e, b, inst, src, dst)
       ELSE IF is_pinned(src.vreg) \/ is_pinned(dst.vreg)
       THEN OnePinnedMove(e, b, inst, src, dst)
       ELSE ProgMove(e, b, inst, src, dst)

\* The effective program point of operand i of a non-move instruction.
OperandPoint(b, inst, i, reused_input) ==
    LET operand == inst_operands(inst)[i + 1]
    IN IF operand.kind = "Mod" THEN Before(inst)
       ELSE IF operand.kind = "Def"
       THEN (IF operand.pos = "Early" THEN Before(inst) ELSE After(inst))
       ELSE IF operand.pos = "Late" THEN After(inst)
       ELSE IF is_branch(inst) THEN block_exit(b)
       ELSE IF reused_input # -1 /\ reused_input # i THEN After(inst)
       ELSE Before(inst)

\* Variant: a dead def's range spans both points, as a dead mod's does.
DefOrMod_wide(e, b, operand, pos, i) ==
    LET v == operand.vreg
        e1 == IF v \notin e.live
              THEN LET a == add_liverange_to_vreg(
                                e, v,
                                CodeRange(IF operand.kind = "Def" THEN pos
                                          ELSE block_entry(b),
                                          PNext(PNext(pos))))
                   IN SetLive(SetVRegRange(a, v, a.ret), v, TRUE)
              ELSE [e EXCEPT !.ret = e.vreg_ranges[v]]
        lr == e1.ret
        e2 == insert_use_into_liverange(e1, lr, Use(operand, pos, i % 256))
    IN IF operand.kind = "Def"
       THEN SetVRegRange(SetLive(TrimToDef(e2, lr, b, pos), v, FALSE), v, 0)
       ELSE e2

DefOrMod(e, b, operand, pos, i) ==
    LET v == operand.vreg
        e1 == IF v \notin e.live
              THEN LET a == add_liverange_to_vreg(
                                e, v,
                                CodeRange(IF operand.kind = "Def" THEN pos
                                          ELSE block_entry(b),
                                          IF operand.kind = "Def" THEN PNext(pos)
                                          ELSE PNext(PNext(pos))))
                   IN SetLive(SetVRegRange(a, v, a.ret), v, TRUE)
              ELSE [e EXCEPT !.ret = e.vreg_ranges[v]]
        lr == e1.ret
        e2 == insert_use_into_liverange(e1, lr, Use(operand, pos, i % 256))
    IN IF operand.kind = "Def"
       THEN SetVRegRange(SetLive(TrimToDef(e2, lr, b, pos), v, FALSE), v, 0)
       ELSE e2

\* Variant: the range created for a use of a dead vreg ends at the use's point.
UseOperand_short(e, b, operand, pos, i) ==
    LET v == operand.vreg
        e1 == IF v \notin e.live
              THEN LET a == add_liverange_to_vreg(
                                e, v, CodeRange(block_entry(b), pos))
                   IN SetVRegRange(a, v, a.ret)
              ELSE [e EXCEPT !.ret = e.vreg_ranges[v]]
        lr == e1.ret
    IN IF ~Panicked(e1) /\ lr = 0 THEN Fail(e1, "assert lr.is_valid")
       ELSE SetLive(insert_use_into_liverange(e1, lr, Use(operand, pos, i % 256)),
                    v, TRUE)

UseOperand(e, b, operand, pos, i) ==
    LET v == operand.vreg
        e1 == IF v \notin e.live
              THEN LET a == add_liverange_to_vreg(
                                e, v, CodeRange(block_entry(b), PNext(pos)))
                   IN SetVRegRange(a, v, a.ret)
              ELSE [e EXCEPT !.ret = e.vreg_ranges[v]]
        lr == e1.ret
    IN IF ~Panicked(e1) /\ lr = 0 THEN Fail(e1, "assert lr.is_valid")
       ELSE SetLive(insert_use_into_liverange(e1, lr, Use(operand, pos, i % 256)),
                    v, TRUE)

ProcessOperand(e, b, inst, i, cur_pos, reused_input) ==
    LET operand == inst_operands(inst)[i + 1]
        pos == OperandPoint(b, inst, i, reused_input)
    IN IF Panicked(e) \/ PPos(pos) # cur_pos THEN e
       ELSE IF operand.kind \in {"Def", "Mod"} THEN DefOrMod(e, b, operand, pos, i)
       ELSE UseOperand(e, b, operand, pos, i)

RECURSIVE OperandsLoop(_, _, _, _, _, _)
OperandsLoop(e, b, inst, i, cur_pos, reused_input) ==
    IF i >= Len(inst_operands(inst)) THEN e
    ELSE OperandsLoop(ProcessOperand(e, b, inst, i, cur_pos, reused_input),
                      b, inst, i + 1, cur_pos, reused_input)

ProcessOperands(e, b, inst) ==
    LET reused_input == ReusedInput(inst_operands(inst))
    IN OperandsLoop(OperandsLoop(e, b, inst, 0, "After", reused_input),
                    b, inst, 0, "Before", reused_input)

Safepoint(e, inst) ==
    IF Panicked(e) \/ ~requires_refs_on_stack(inst) THEN e
    ELSE [e EXCEPT !.safepoints = Append(@, inst),
                   !.safepoints_per_vreg =
                       [v \in DOMAIN @ |-> IF v \in e.live THEN @[v] \cup {inst} ELSE @[v]]]

ProcessInst(e, b, inst) ==
    IF is_move(inst) THEN MoveInst(Clobbers(e, inst), b, inst)
    ELSE Safepoint(ProcessOperands(Clobbers(e, inst), b, inst), inst)

----------------------------------------------------------------------------
(* Finalization, safepoint stack uses and the multi-fixed-reg fixup.       *)

Reverse(s) == [k \in 1..Len(s) |-> s[Len(s) + 1 - k]]

RECURSIVE LexLeq(_, _)
LexLeq(a, b) ==
    IF a = <<>> THEN TRUE
    ELSE IF Head(a) < Head(b) THEN TRUE
    ELSE IF Head(a) > Head(b) THEN FALSE
    ELSE LexLeq(Tail(a), Tail(b))

\* Sorting s by keys[i], the key of s[i], a tuple of numbers.  Elements with equal keys keep
\* their order, which is what the insertion sort that sort_unstable runs on
\* slices this short does.
SortByKey(s, keys) ==
    LET Ins(sorted, x) ==
            LET n == Cardinality({k \in 1..Len(sorted) : LexLeq(sorted[k][1], x[1])})
            IN SubSeq(sorted, 1, n) \o <<x>> \o SubSeq(sorted, n + 1, Len(sorted))
        F[i \in 0..Len(s)] == IF i = 0 THEN <<>> ELSE Ins(F[i - 1], <<keys[i], s[i]>>)
    IN [k \in 1..Len(s) |-> F[Len(s)][k][2]]

\* Variant: program moves are sorted by their instruction alone.
SortProgMoves_byinst(s) == SortByKey(s, [k \in 1..Len(s) |-> <<s[k].key[2]>>])

\* sort_unstable() of a list of instructions and of a list of tuples;
\* sort_unstable_by_key() of uses by pos and of program moves by their key.
SortInsts(s) == SortByKey(s, [k \in 1..Len(s) |-> <<s[k]>>])
SortTuples(s) == SortByKey(s, s)
SortUsesByPos(uses) == SortByKey(uses, [k \in 1..Len(uses) |-> <<uses[k].pos>>])
SortProgMoves(s) == SortByKey(s, [k \in 1..Len(s) |-> s[k].key])

\* Variant: the entry keeps the range it was stored with.
RefreshEntry_stale(rs, entry) == entry

\* entry.range = self.ranges[entry.index.index()].range
RefreshEntry(rs, entry) == [range |-> rs[entry.index].range, index |-> entry.index]

ReverseRefresh(rs, list) ==
    [k \in 1..Len(list) |-> RefreshEntry(rs, Reverse(list)[k])]

\* assert!(last.is_none() || last.unwrap() <= entry.range.from) along the list.
InOrder(list) ==
    \A k \in 2..Len(list) : list[k - 1].range.to <= list[k].range.from

\* Variant: the uses stay in the order the reverse scan pushed them.
ReverseUsesOf_asis(lr) == lr

ReverseUsesOf(lr) == [lr EXCEPT !.uses = Reverse(@)]

UsesAscending(uses) == \A k \in 2..Len(uses) : uses[k - 1].pos <= uses[k].pos

StackUse(vreg, pos) ==
    Use(Operand(vreg, Stack, "Use", "Early"), pos, SLOT_NONE)

\* Variant: the cursor does not step over safepoints before the range.
SkipSafepoints_none(st, range) == st

\* The cursor state of the safepoint walk over one vreg:
\* [ranges, safepoint_idx, inserted].
RECURSIVE SkipSafepoints(_, _)
SkipSafepoints(st, range) ==
    IF st.safepoint_idx < Len(safepoints)
       /\ Before(safepoints[st.safepoint_idx + 1]) < range.from
    THEN SkipSafepoints([st EXCEPT !.safepoint_idx = @ + 1], range)
    ELSE st

RECURSIVE InsertStackUses(_, _, _, _)
InsertStackUses(st, vreg, range, index) ==
    IF st.safepoint_idx < Len(safepoints)
       /\ ContainsPoint(range, Before(safepoints[st.safepoint_idx + 1]))
    THEN InsertStackUses(
             [st EXCEPT !.ranges[index].uses =
                            Append(@, StackUse(vreg, Before(safepoints[st.safepoint_idx + 1]))),
                        !.safepoint_idx = @ + 1,
                        !.inserted = TRUE],
             vreg, range, index)
    ELSE st

RECURSIVE SafepointRanges(_, _, _, _)
SafepointRanges(st, vreg, list, range_idx) ==
    IF range_idx >= Len(list) THEN st
    ELSE LET entry == list[range_idx + 1]
             st1 == InsertStackUses(SkipSafepoints(st, entry.range), vreg,
                                    entry.range, entry.index)
             st2 == IF st1.inserted
                    THEN [st1 EXCEPT !.ranges[entry.index].uses = SortUsesByPos(@)]
                    ELSE st1
         IN IF st2.safepoint_idx >= Len(safepoints) THEN st2
            ELSE SafepointRanges(st2, vreg, list, range_idx + 1)

RECURSIVE SafepointVRegs(_, _)
SafepointVRegs(rs, refs) ==
    IF refs = <<>> THEN rs
    ELSE IF is_pinned(Head(refs)) THEN SafepointVRegs(rs, Tail(refs))
    ELSE SafepointVRegs(
             SafepointRanges([ranges |-> rs, safepoint_idx |-> 0, inserted |-> FALSE],
                             Head(refs), vregs[Head(refs)].ranges, 0).ranges,
             Tail(refs))

\* Position of vreg v in seen_fixed_for_vreg, counted from 1, or 0.
SeenPosition(seen, v) ==
    IF \E k \in 1..Len(seen) : seen[k] = v
    THEN Min({k \in 1..Len(seen) : seen[k] = v})
    ELSE 0

ExtraClobberRange(inst) == CodeRange(Before(inst), Before(inst + 1))

\* Variant: the fixup record names the demoted preg first and the kept second.
FixupUse_swapped(st, k) ==
    LET u == st.uses[k]
        op == u.operand
        st1 == IF st.last_point # -1 /\ u.pos # st.last_point
               THEN [st EXCEPT !.seen_fixed_for_vreg = <<>>, !.first_preg = <<>>,
                               !.last_point = u.pos]
               ELSE [st EXCEPT !.last_point = u.pos]
        idx == SeenPosition(st1.seen_fixed_for_vreg, op.vreg)
    IN IF op.constraint.t # "FixedReg" THEN st1
       ELSE IF idx = 0
       THEN [st1 EXCEPT !.seen_fixed_for_vreg = Append(@, op.vreg),
                        !.first_preg = Append(@, op.constraint.r)]
       ELSE IF st1.first_preg[idx] # op.constraint.r
       THEN [st1 EXCEPT
               !.fixups = Append(@, <<u.pos, op.constraint.r, st1.first_preg[idx], u.slot>>),
               !.uses[k].operand = Operand(op.vreg, Reg, op.kind, op.pos),
               !.extra_clobbers = Append(@, <<op.constraint.r, PInst(u.pos)>>)]
       ELSE st1

\* Variant: the seen lists are not cleared when the program point changes.
FixupUse_noclear(st, k) ==
    LET u == st.uses[k]
        op == u.operand
        st1 == [st EXCEPT !.last_point = u.pos]
        idx == SeenPosition(st1.seen_fixed_for_vreg, op.vreg)
    IN IF op.constraint.t # "FixedReg" THEN st1
       ELSE IF idx = 0
       THEN [st1 EXCEPT !.seen_fixed_for_vreg = Append(@, op.vreg),
                        !.first_preg = Append(@, op.constraint.r)]
       ELSE IF st1.first_preg[idx] # op.constraint.r
       THEN [st1 EXCEPT
               !.fixups = Append(@, <<u.pos, st1.first_preg[idx], op.constraint.r, u.slot>>),
               !.uses[k].operand = Operand(op.vreg, Reg, op.kind, op.pos),
               !.extra_clobbers = Append(@, <<op.constraint.r, PInst(u.pos)>>)]
       ELSE st1

\* The closure fixup_multi_fixed_vregs applied to use k of the range; st is
\* [uses, fixups, extra_clobbers, last_point, seen_fixed_for_vreg, first_preg].
FixupUse(st, k) ==
    LET u == st.uses[k]
        op == u.operand
        st1 == IF st.last_point # -1 /\ u.pos # st.last_point
               THEN [st EXCEPT !.seen_fixed_for_vreg = <<>>, !.first_preg = <<>>,
                               !.last_point = u.pos]
               ELSE [st EXCEPT !.last_point = u.pos]
        idx == SeenPosition(st1.seen_fixed_for_vreg, op.vreg)
    IN IF op.constraint.t # "FixedReg" THEN st1
       ELSE IF idx = 0
       THEN [st1 EXCEPT !.seen_fixed_for_vreg = Append(@, op.vreg),
                        !.first_preg = Append(@, op.constraint.r)]
       ELSE IF st1.first_preg[idx] # op.constraint.r
       THEN [st1 EXCEPT
               !.fixups = Append(@, <<u.pos, st1.first_preg[idx], op.constraint.r, u.slot>>),
               !.uses[k].operand = Operand(op.vreg, Reg, op.kind, op.pos),
               !.extra_clobbers = Append(@, <<op.constraint.r, PInst(u.pos)>>)]
       ELSE st1

RECURSIVE FixupUses(_, _)
FixupUses(st, k) ==
    IF k > Len(st.uses) THEN st ELSE FixupUses(FixupUse(st, k), k + 1)

RECURSIVE ExtraClobbers(_, _)
ExtraClobbers(pr, extra) ==
    IF extra = <<>> THEN pr
    ELSE ExtraClobbers(
             [pr EXCEPT ![Head(extra)[1]] = @ \cup {ExtraClobberRange(Head(extra)[2])}],
             Tail(extra))

\* One range of the fixup pass; fs is [ranges, fixups, pregs].
FixupRange(fs, range) ==
    LET st == FixupUses([uses |-> fs.ranges[range].uses, fixups |-> fs.fixups,
                         extra_clobbers |-> <<>>, last_point |-> -1,
                         seen_fixed_for_vreg |-> <<>>, first_preg |-> <<>>], 1)
    IN [ranges |-> [fs.ranges EXCEPT ![range].uses = st.uses],
        fixups |-> st.fixups,
        pregs |-> ExtraClobbers(fs.pregs, st.extra_clobbers)]

RECURSIVE FixupList(_, _)
FixupList(fs, list) ==
    IF list = <<>> THEN fs ELSE FixupList(FixupRange(fs, Head(list).index), Tail(list))

RECURSIVE FixupVRegs(_, _)
FixupVRegs(fs, vreg) ==
    IF vreg \notin VRegs THEN fs
    ELSE FixupVRegs(FixupList(fs, vregs[vreg].ranges), vreg + 1)

----------------------------------------------------------------------------
(* The steps of compute_liveness.                                          *)

Commit(e) ==
    /\ ranges' = e.ranges
    /\ vregs' = e.vregs
    /\ vreg_ranges' = e.vreg_ranges
    /\ live' = e.live
    /\ prog_move_srcs' = e.prog_move_srcs
    /\ prog_move_dsts' = e.prog_move_dsts
    /\ prog_move_merges' = e.prog_move_merges
    /\ inserted_moves' = e.inserted_moves
    /\ safepoints' = e.safepoints
    /\ safepoints_per_vreg' = e.safepoints_per_vreg
    /\ clobbers' = e.clobbers
    /\ pregs' = e.pregs
    /\ blockparam_ins' = e.blockparam_ins
    /\ blockparam_outs' = e.blockparam_outs
    /\ panic' = e.panic
    /\ result' = IF Panicked(e) THEN "panic" ELSE result

solverVars == <<liveins, liveouts, workqueue, workqueue_set, livein_iterations>>
buildVars == <<ranges, vregs, vreg_ranges, live, prog_move_srcs, prog_move_dsts,
               prog_move_merges, inserted_moves, safepoints, safepoints_per_vreg,
               clobbers, pregs, blockparam_ins, blockparam_outs>>

\* Lines 297-311: empty sets, the queue seeded with the postorder.
Start ==
    /\ pc = "start"
    /\ liveins' = [b \in Blocks |-> {}]
    /\ liveouts' = [b \in Blocks |-> {}]
    /\ workqueue' = postorder
    /\ workqueue_set' = SeqSet(postorder)
    /\ pc' = "solve"
    /\ UNCHANGED <<func, spill_weight, packed, result, panic, livein_iterations, cur_block, cur_inst,
                   multi_fixed_reg_fixups>>
    /\ UNCHANGED buildVars

\* Variant: a block taken off the queue stays marked as queued.
SolverIteration_keepqueued(st) ==
    LET block == Head(st.workqueue)
        lv == BlockTransfer(block, st.liveouts[block])
        st1 == PredsUnion([liveouts |-> st.liveouts, workqueue |-> Tail(st.workqueue),
                           workqueue_set |-> st.workqueue_set],
                          block_preds(block), lv)
    IN [liveins |-> [st.liveins EXCEPT ![block] = lv],
        liveouts |-> st1.liveouts,
        workqueue |-> st1.workqueue,
        workqueue_set |-> st1.workqueue_set]

\* The body of `while let Some(block) = workqueue.pop_front()`, on the record
\* of the solver's four collections.
SolverIteration(st) ==
    LET block == Head(st.workqueue)
        lv == BlockTransfer(block, st.liveouts[block])
        st1 == PredsUnion([liveouts |-> st.liveouts, workqueue |-> Tail(st.workqueue),
                           workqueue_set |-> st.workqueue_set \ {block}],
                          block_preds(block), lv)
    IN [liveins |-> [st.liveins EXCEPT ![block] = lv],
        liveouts |-> st1.liveouts,
        workqueue |-> st1.workqueue,
        workqueue_set |-> st1.workqueue_set]

\* One iteration of the worklist loop.
SolverStep ==
    /\ pc = "solve"
    /\ workqueue # <<>>
    /\ LET st == SolverIteration([liveins |-> liveins, liveouts |-> liveouts,
                                  workqueue |-> workqueue,
                                  workqueue_set |-> workqueue_set])
       IN /\ liveouts' = st.liveouts
          /\ workqueue' = st.workqueue
          /\ workqueue_set' = st.workqueue_set
          /\ liveins' = st.liveins
    /\ livein_iterations' = livein_iterations + 1
    /\ UNCHANGED <<func, spill_weight, packed, pc, result, panic, cur_block, cur_inst,
                   multi_fixed_reg_fixups>>
    /\ UNCHANGED buildVars

\* self.liveins[block].iter().next().is_some()
HasLivein_liveout(block) == liveouts[block] # {}
HasLivein(block) == liveins[block] # {}

\* Lines 364-396: the entry-livein check, then the set-up of the scan.
CheckEntryLivein ==
    /\ pc = "solve"
    /\ workqueue = <<>>
    /\ IF HasLivein(entry_block)
       THEN /\ result' = "EntryLivein"
            /\ pc' = "done"
            /\ UNCHANGED <<safepoints_per_vreg, vreg_ranges, cur_block>>
       ELSE /\ safepoints_per_vreg' = [v \in SeqSet(func.reftype_vregs) |-> {}]
            /\ vreg_ranges' = [v \in VRegs |-> 0]
            /\ cur_block' = num_blocks - 1
            /\ pc' = "block_begin"
            /\ UNCHANGED result
    /\ UNCHANGED <<func, spill_weight, packed, panic, cur_inst, multi_fixed_reg_fixups, ranges, vregs, live,
                   prog_move_srcs, prog_move_dsts, prog_move_merges, inserted_moves,
                   safepoints, clobbers, pregs, blockparam_ins, blockparam_outs>>
    /\ UNCHANGED solverVars

\* Lines 398-443: liveout ranges, blockparam data, blockparam_outs.
BlockBegin ==
    /\ pc = "block_begin"
    /\ LET e == BeginBlock(Env, cur_block)
       IN /\ Commit(e)
          /\ pc' = IF Panicked(e) THEN "done" ELSE "inst"
    /\ cur_inst' = func.blocks[cur_block].last
    /\ UNCHANGED <<func, spill_weight, packed, cur_block, multi_fixed_reg_fixups>>
    /\ UNCHANGED solverVars

\* Lines 447-1024: one instruction of the reverse scan.
InstStep ==
    /\ pc = "inst"
    /\ LET e == ProcessInst(Env, cur_block, cur_inst)
       IN /\ Commit(e)
          /\ pc' = IF Panicked(e) THEN "done"
                   ELSE IF cur_inst = func.blocks[cur_block].first THEN "block_end"
                   ELSE "inst"
    /\ cur_inst' = IF cur_inst = func.blocks[cur_block].first THEN cur_inst
                   ELSE cur_inst - 1
    /\ UNCHANGED <<func, spill_weight, packed, cur_block, multi_fixed_reg_fixups>>
    /\ UNCHANGED solverVars

\* Lines 1026-1049: blockparams at the block start, blockparam_ins.
BlockEnd ==
    /\ pc = "block_end"
    /\ LET e == EndBlock(Env, cur_block, block_params(cur_block))
       IN /\ Commit(e)
          /\ pc' = IF Panicked(e) THEN "done"
                   ELSE IF cur_block = 0 THEN "finalize"
                   ELSE "block_begin"
    /\ cur_block' = IF cur_block = 0 THEN cur_block ELSE cur_block - 1
    /\ UNCHANGED <<func, spill_weight, packed, cur_inst, multi_fixed_reg_fixups>>
    /\ UNCHANGED solverVars

\* Lines 1051-1074: sort the safepoints; reverse and refresh every vreg's list.
FinalizeRanges ==
    /\ pc = "finalize"
    /\ safepoints' = SortInsts(safepoints)
    /\ vregs' = [v \in VRegs |->
                   [vregs[v] EXCEPT !.ranges = ReverseRefresh(ranges, @)]]
    /\ IF \A v \in VRegs : InOrder(vregs'[v].ranges)
       THEN pc' = "reverse_uses" /\ UNCHANGED <<panic, result>>
       ELSE pc' = "done" /\ panic' = "ranges out of order" /\ result' = "panic"
    /\ UNCHANGED <<func, spill_weight, packed, cur_block, cur_inst, multi_fixed_reg_fixups, ranges,
                   vreg_ranges, live, prog_move_srcs, prog_move_dsts,
                   prog_move_merges, inserted_moves, safepoints_per_vreg, clobbers,
                   pregs, blockparam_ins, blockparam_outs>>
    /\ UNCHANGED solverVars

\* Lines 1076-1082: reverse every range's uses.  The debug_assert is compiled
\* in or out by the build, so a violation either panics or passes.
ReverseUses ==
    /\ pc = "reverse_uses"
    /\ ranges' = [k \in 1..Len(ranges) |-> ReverseUsesOf(ranges[k])]
    /\ \E debug_assertions \in BOOLEAN :
          IF debug_assertions /\ \E k \in 1..Len(ranges) : ~UsesAscending(ranges'[k].uses)
          THEN pc' = "done" /\ panic' = "uses out of order" /\ result' = "panic"
          ELSE pc' = "safepoint_uses" /\ UNCHANGED <<panic, result>>
    /\ UNCHANGED <<func, spill_weight, packed, cur_block, cur_inst, multi_fixed_reg_fixups, vregs,
                   vreg_ranges, live, prog_move_srcs, prog_move_dsts,
                   prog_move_merges, inserted_moves, safepoints,
                   safepoints_per_vreg, clobbers, pregs, blockparam_ins,
                   blockparam_outs>>
    /\ UNCHANGED solverVars

\* Lines 1084-1135: virtual stack uses at safepoints.
SafepointUses ==
    /\ pc = "safepoint_uses"
    /\ ranges' = SafepointVRegs(ranges, func.reftype_vregs)
    /\ pc' = "fixup"
    /\ UNCHANGED <<func, spill_weight, packed, result, panic, cur_block, cur_inst, multi_fixed_reg_fixups,
                   vregs, vreg_ranges, live, prog_move_srcs, prog_move_dsts,
                   prog_move_merges, inserted_moves, safepoints,
                   safepoints_per_vreg, clobbers, pregs, blockparam_ins,
                   blockparam_outs>>
    /\ UNCHANGED solverVars

\* Lines 1137-1232: the multi-fixed-reg fixup pass.
MultiFixedRegFixup ==
    /\ pc = "fixup"
    /\ LET fs == FixupVRegs([ranges |-> ranges, fixups |-> multi_fixed_reg_fixups,
                             pregs |-> pregs], 0)
       IN /\ ranges' = fs.ranges
          /\ multi_fixed_reg_fixups' = fs.fixups
          /\ pregs' = fs.pregs
    /\ pc' = "sort"
    /\ UNCHANGED <<func, spill_weight, packed, result, panic, cur_block, cur_inst, vregs, vreg_ranges, live,
                   prog_move_srcs, prog_move_dsts, prog_move_merges, inserted_moves,
                   safepoints, safepoints_per_vreg, clobbers, blockparam_ins,
                   blockparam_outs>>
    /\ UNCHANGED solverVars

\* Lines 1234-1247: the final sorts; compute_liveness returns Ok.
SortLists ==
    /\ pc = "sort"
    /\ clobbers' = SortInsts(clobbers)
    /\ blockparam_ins' = SortTuples(blockparam_ins)
    /\ blockparam_outs' = SortTuples(blockparam_outs)
    /\ prog_move_srcs' = SortProgMoves(prog_move_srcs)
    /\ prog_move_dsts' = SortProgMoves(prog_move_dsts)
    /\ result' = "Ok"
    /\ pc' = "done"
    /\ UNCHANGED <<func, spill_weight, packed, panic, cur_block, cur_inst, multi_fixed_reg_fixups, ranges,
                   vregs, vreg_ranges, live, prog_move_merges, inserted_moves,
                   safepoints, safepoints_per_vreg, pregs>>
    /\ UNCHANGED solverVars

Next ==
    \/ Start
    \/ SolverStep
    \/ CheckEntryLivein
    \/ BlockBegin
    \/ InstStep
    \/ BlockEnd
    \/ FinalizeRanges
    \/ ReverseUses
    \/ SafepointUses
    \/ MultiFixedRegFixup
    \/ SortLists

----------------------------------------------------------------------------
(* SpillWeight packing. A weight is held as the 32 bits of its f32, bit 0   *)
(* the least significant: bit 31 the sign, bits 30..23 the exponent, bits  *)
(* 22..0 the fraction.                                                     *)

\* (self.0.to_bits() >> 15) as u16
to_bits(w) ==
    LET shifted == [i \in 0..31 |-> IF i + 15 <= 31 THEN w[i + 15] ELSE 0]
    IN [i \in 0..15 |-> shifted[i]]

\* f32::from_bits((bits as u32) << 15)
from_bits(bits) ==
    LET wide == [i \in 0..31 |-> IF i <= 15 THEN bits[i] ELSE 0]
    IN [i \in 0..31 |-> IF i >= 15 THEN wide[i - 15] ELSE 0]

\* SpillWeight::zero()
zero == [i \in 0..31 |-> 0]

\* f32 bit patterns: both signs; the exponents of 0.0, 1.0, 1000.0, 4000.0 and
\* infinity; fractions with bits on either side of bit 15, and that of 1000.0.
Weights ==
    LET F32(sg, ex, fr) ==
            [i \in 0..31 |-> IF i = 31 THEN sg
                             ELSE IF i >= 23 THEN (ex \div 2^(i - 23)) % 2
                             ELSE (fr \div 2^i) % 2]
    IN {F32(sg, ex, fr) :
          sg \in {0, 1}, ex \in {0, 127, 136, 138, 255},
          fr \in {0, 2^14, 2^15, 2^16, 2^15 + 2^16, 2^22, 2^23 - 1, 122 * 2^16}}

----------------------------------------------------------------------------
(* The checked inputs, and the state before compute_liveness runs (after   *)
(* create_pregs_and_vregs).  The CFG shapes have no critical edge, which   *)
(* the CFG analysis rejects before liveness is computed.                   *)

Shape(pre, succs, params, cond, args) ==
    [pre |-> pre, succs |-> succs, params |-> params, cond |-> cond, args |-> args]

Op1(o) == Inst(<<o>>, FALSE, FALSE, <<>>, FALSE)
Op2(o1, o2) == Inst(<<o1, o2>>, FALSE, FALSE, <<>>, FALSE)
Move(s, sc, d, dc) ==
    Inst(<<Operand(s, sc, "Use", "Early"), Operand(d, dc, "Def", "Late")>>,
         TRUE, FALSE, <<>>, FALSE)
WithClobbers(i, cl) == [i EXCEPT !.clobbers = cl]
AtSafepoint(i) == [i EXCEPT !.safepoint = TRUE]
Nop == Inst(<<>>, FALSE, FALSE, <<>>, FALSE)

\* An instruction defining every vreg, as a function's argument definitions do.
DefAll == Inst([v \in 1..Cardinality(VRegs) |-> Operand(v - 1, Any, "Def", "Late")],
               FALSE, FALSE, <<>>, FALSE)

\* One block.
Straight(pre) == Shape(pre, << <<>> >>, << <<>> >>, << <<>> >>, << <<>> >>)
\* b0 -> b1(v2), the branch passing v0.
TwoBlocks(pre) ==
    Shape(pre, << <<1>>, <<>> >>, << <<>>, <<2>> >>, << <<>>, <<>> >>,
          << <<0>>, <<>> >>)
\* b0 -> b1(v1) | b2(v2, v0) on v0, passing v0 to b1 and v1, v2 to b2.
Fork(pre) ==
    Shape(pre, << <<1, 2>>, <<>>, <<>> >>, << <<>>, <<1>>, <<2, 0>> >>,
          << <<0>>, <<>>, <<>> >>, << <<0, 1, 2>>, <<>>, <<>> >>)
\* b0 -> b1(v2); b1 -> b2 | b3 on v0; b2 -> b1 passing v1; b3 returns.
Loop(pre) ==
    Shape(pre, << <<1>>, <<2, 3>>, <<1>>, <<>> >>, << <<>>, <<2>>, <<>>, <<>> >>,
          << <<>>, <<0>>, <<>>, <<>> >>, << <<0>>, <<>>, <<1>>, <<>> >>)
\* b0 -> b1(v2); b2 -> b1 is not reachable from the entry.
Unreachable(pre) ==
    Shape(pre, << <<1>>, <<>>, <<1>> >>, << <<>>, <<2>>, <<>> >>,
          << <<>>, <<>>, <<>> >>, << <<0>>, <<>>, <<1>> >>)

\* b0 -> b1(v2) passing v0; b1 -> b1 passing v1: a block that is its own
\* successor.
SelfLoop(pre) ==
    Shape(pre, << <<1>>, <<1>> >>, << <<>>, <<2>> >>, << <<>>, <<>> >>,
          << <<0>>, <<1>> >>)

BasicShapes == {Straight(<<>>), Straight(<<DefAll>>), TwoBlocks(<<DefAll>>)}
CfgShapes == {Straight(<<>>), TwoBlocks(<<>>), TwoBlocks(<<DefAll>>), Fork(<<>>),
              Fork(<<DefAll>>), Loop(<<>>), Loop(<<DefAll>>), Unreachable(<<DefAll>>)}

Bodies(Pool) == UNION {[1..n -> Pool] : n \in 0..MaxBody}

Places(body, nb) ==
    {pl \in [1..Len(body) -> 0..(nb - 1)] :
        \A i, j \in 1..Len(body) : i <= j => pl[i] <= pl[j]}

Funcs(ShapeSet, Pool, refs, pinned) ==
    UNION {UNION {{MkFunc(sh, body, pl, refs, pinned) : pl \in Places(body, Len(sh.succs))}
                  : body \in Bodies(Pool)}
           : sh \in ShapeSet}

NoPinned == [v \in VRegs |-> 0]
\* v1 is pinned to p1 and v3 to p2.
TwoPinned == [v \in VRegs |-> IF v = 1 THEN 1 ELSE IF v = 3 THEN 2 ELSE 0]

\* Every kind and position of a single operand on v0 and v1, the moves between
\* them, and a def and a use of v0 in one instruction in both operand orders.
OperandPool ==
    {Op1(Operand(v, Any, k, p)) : v \in {0, 1}, k \in {"Use", "Def"}, p \in {"Early", "Late"}}
    \cup {Op1(Operand(v, Any, "Mod", "Early")) : v \in {0, 1}}
    \cup {Move(0, Any, 1, Any), Move(1, Any, 0, Any), Move(0, Any, 0, Any)}
    \cup {Op2(Operand(0, Any, "Def", "Late"), Operand(0, Any, "Use", "Late")),
          Op2(Operand(0, Any, "Use", "Early"), Operand(0, Any, "Def", "Late"))}

\* A few operands and a move, for the functions with larger CFGs.
CfgPool ==
    {Op1(Operand(v, Any, k, IF k = "Use" THEN "Early" ELSE "Late")) :
        v \in {0, 1}, k \in {"Use", "Def"}}
    \cup {Op1(Operand(2, Any, "Use", "Early")), Move(0, Any, 1, Any)}

\* Operands on the reference-typed v0 and the pinned v1, safepoints, and moves
\* with a pinned source, a pinned destination and both ends pinned.
PinnedPool ==
    {Op1(Operand(0, Any, "Use", "Early")), Op1(Operand(0, Any, "Def", "Late")),
     Op1(Operand(0, Any, "Mod", "Early")),
     Op1(Operand(1, FixedReg(1), "Use", "Early")),
     Op1(Operand(1, FixedReg(1), "Def", "Late")),
     Move(1, FixedReg(1), 0, Any), Move(0, Any, 1, FixedReg(1)),
     Move(1, FixedReg(1), 3, FixedReg(2)), Move(3, FixedReg(2), 1, FixedReg(1)),
     AtSafepoint(Nop), AtSafepoint(Op1(Operand(0, Any, "Use", "Early"))),
     AtSafepoint(Op1(Operand(0, Any, "Def", "Late"))),
     AtSafepoint(Op1(Operand(0, Any, "Def", "Early")))}

\* Fixed-register operands of v0 on p1 and p2 at one and at two program
\* points, clobbers, and a reused input.
FixedPool ==
    {Op2(Operand(0, FixedReg(1), "Use", "Early"), Operand(0, FixedReg(2), "Use", "Early")),
     Op2(Operand(0, FixedReg(2), "Use", "Early"), Operand(0, FixedReg(1), "Use", "Early")),
     Op2(Operand(0, FixedReg(1), "Use", "Early"), Operand(0, FixedReg(1), "Use", "Early")),
     WithClobbers(Op2(Operand(0, FixedReg(1), "Use", "Early"),
                      Operand(0, FixedReg(2), "Use", "Early")), <<2>>),
     WithClobbers(Op2(Operand(0, FixedReg(1), "Use", "Early"),
                      Operand(0, FixedReg(2), "Use", "Early")), <<1>>),
     Inst(<<Operand(0, FixedReg(1), "Use", "Early"), Operand(0, FixedReg(2), "Use", "Early"),
            Operand(0, FixedReg(2), "Use", "Early")>>, FALSE, FALSE, <<>>, FALSE),
     Op2(Operand(0, FixedReg(1), "Use", "Late"), Operand(0, FixedReg(2), "Def", "Late")),
     Op2(Operand(0, FixedReg(1), "Use", "Early"), Operand(0, FixedReg(2), "Def", "Late")),
     Op2(Operand(0, FixedReg(1), "Use", "Early"), Operand(1, FixedReg(2), "Use", "Early")),
     Inst(<<Operand(1, Reuse(1), "Def", "Late"), Operand(0, Reg, "Use", "Early"),
            Operand(0, FixedReg(2), "Use", "Early")>>, FALSE, FALSE, <<>>, FALSE),
     WithClobbers(Nop, <<1, 2>>),
     AtSafepoint(Op1(Operand(0, FixedReg(2), "Use", "Early"))),
     Op1(Operand(0, Any, "Def", "Late"))}

\* A use and a def of v3, which no terminator mentions, and a use of v0, for
\* functions whose blocks are laid out next to and apart from each other.
LayoutPool ==
    {Op1(Operand(3, Any, "Use", "Early")), Op1(Operand(3, Any, "Def", "Late")),
     Op1(Operand(0, Any, "Use", "Early")), Nop}
LayoutShapes == {Straight(<<DefAll>>), TwoBlocks(<<DefAll>>), Fork(<<DefAll>>)}

\* Instructions whose def reuses an input, with the Reuse operand before and
\* after the uses, an instruction with two reusing defs, and plain uses.
ReusePool ==
    {Inst(<<Operand(1, Reuse(1), "Def", "Late"), Operand(0, Any, "Use", "Early"),
            Operand(2, Any, "Use", "Early")>>, FALSE, FALSE, <<>>, FALSE),
     Inst(<<Operand(0, Any, "Use", "Early"), Operand(2, Any, "Use", "Early"),
            Operand(1, Reuse(1), "Def", "Late")>>, FALSE, FALSE, <<>>, FALSE),
     Inst(<<Operand(1, Reuse(2), "Def", "Late"), Operand(3, Reuse(3), "Def", "Late"),
            Operand(0, Any, "Use", "Early"), Operand(2, Any, "Use", "Early")>>,
          FALSE, FALSE, <<>>, FALSE),
     Op2(Operand(0, Any, "Use", "Early"), Operand(2, Any, "Use", "Early")),
     Op2(Operand(0, Any, "Use", "Late"), Operand(2, Any, "Use", "Early")),
     Op1(Operand(1, Any, "Use", "Early"))}

\* Uses that carry liveness around a back edge.
LoopPool == {Op1(Operand(0, Any, "Use", "Early")), Op1(Operand(1, Any, "Use", "Early"))}
LoopShapes == {Loop(<<DefAll>>), SelfLoop(<<DefAll>>)}

InitWith(F) ==
    /\ func \in F
    /\ pc = "start"
    /\ result = "none"
    /\ panic = "none"
    /\ liveins = <<>>
    /\ liveouts = <<>>
    /\ workqueue = <<>>
    /\ workqueue_set = {}
    /\ livein_iterations = 0
    /\ cur_block = 0
    /\ cur_inst = 0
    /\ live = {}
    /\ vreg_ranges = <<>>
    /\ ranges = <<>>
    /\ vregs = [v \in VRegs |-> [ranges |-> <<>>, blockparam |-> -1]]
    /\ blockparam_ins = <<>>
    /\ blockparam_outs = <<>>
    /\ prog_move_srcs = <<>>
    /\ prog_move_dsts = <<>>
    /\ prog_move_merges = <<>>
    /\ inserted_moves = <<>>
    /\ safepoints = <<>>
    /\ safepoints_per_vreg = <<>>
    /\ clobbers = <<>>
    /\ pregs = [p \in PRegs |-> {}]
    /\ multi_fixed_reg_fixups = <<>>
    /\ spill_weight = zero
    /\ packed = to_bits(zero)

Init == InitWith(Funcs(BasicShapes, OperandPool, <<>>, NoPinned))
InitCfg == InitWith(Funcs(CfgShapes, CfgPool, <<>>, NoPinned))
InitPinned == InitWith(Funcs(BasicShapes, PinnedPool, <<0, 1>>, TwoPinned))
InitFixed == InitWith(Funcs(BasicShapes, FixedPool, <<0>>, NoPinned))

InitLayout == InitWith(Funcs(LayoutShapes, LayoutPool, <<>>, NoPinned))
InitReuse == InitWith(Funcs(BasicShapes, ReusePool, <<>>, NoPinned))
InitLoops == InitWith(Funcs(LoopShapes, LoopPool, <<>>, NoPinned))
Spec == Init /\ [][Next]_vars
SpecCfg == InitCfg /\ [][Next]_vars
SpecPinned == InitPinned /\ [][Next]_vars
SpecFixed == InitFixed /\ [][Next]_vars
SpecLayout == InitLayout /\ [][Next]_vars
SpecReuse == InitReuse /\ [][Next]_vars
\* A weight about to be stored into a Use.
InitWeights ==
    /\ func \in Funcs({Straight(<<>>)}, {}, <<>>, NoPinned)
    /\ pc = "to_bits"
    /\ spill_weight \in Weights
    /\ packed = to_bits(zero)
    /\ result = "none"
    /\ panic = "none"
    /\ liveins = <<>>
    /\ liveouts = <<>>
    /\ workqueue = <<>>
    /\ workqueue_set = {}
    /\ livein_iterations = 0
    /\ cur_block = 0
    /\ cur_inst = 0
    /\ live = {}
    /\ vreg_ranges = <<>>
    /\ ranges = <<>>
    /\ vregs = [v \in VRegs |-> [ranges |-> <<>>, blockparam |-> -1]]
    /\ blockparam_ins = <<>>
    /\ blockparam_outs = <<>>
    /\ prog_move_srcs = <<>>
    /\ prog_move_dsts = <<>>
    /\ prog_move_merges = <<>>
    /\ inserted_moves = <<>>
    /\ safepoints = <<>>
    /\ safepoints_per_vreg = <<>>
    /\ clobbers = <<>>
    /\ pregs = [p \in PRegs |-> {}]
    /\ multi_fixed_reg_fixups = <<>>

\* Line 246: u.weight = weight.to_bits()
ToBits ==
    /\ pc = "to_bits"
    /\ packed' = to_bits(spill_weight)
    /\ pc' = "from_bits"
    /\ UNCHANGED <<func, spill_weight, result, panic, cur_block, cur_inst,
                   multi_fixed_reg_fixups>>
    /\ UNCHANGED solverVars
    /\ UNCHANGED buildVars

\* SpillWeight::from_bits(u.weight)
FromBits ==
    /\ pc = "from_bits"
    /\ spill_weight' = from_bits(packed)
    /\ pc' = "weight_done"
    /\ UNCHANGED <<func, packed, result, panic, cur_block, cur_inst,
                   multi_fixed_reg_fixups>>
    /\ UNCHANGED solverVars
    /\ UNCHANGED buildVars

NextWeights ==
    \/ ToBits
    \/ FromBits

SpecWeights == InitWeights /\ [][NextWeights]_vars

\* Functions in which a use of v3 directly precedes an Early def of v3, in
\* blocks with and without the defining block directly before them.
SpecExtend ==
    /\ InitWith(Funcs(LayoutShapes,
                      {Op1(Operand(3, Any, "Use", "Late")),
                       Op1(Operand(3, Any, "Def", "Early")),
                       Op1(Operand(3, Any, "Use", "Early"))},
                      <<>>, NoPinned))
    /\ [][Next]_vars

\* The worklist loop runs its body for as long as the queue is non-empty.
SpecLoopsFair == InitLoops /\ [][Next]_vars /\ WF_vars(Start) /\ WF_vars(SolverStep)

----------------------------------------------------------------------------
(* Properties of compute_liveness.                                         *)

Ok == result = "Ok"
NumRanges == Len(ranges)
UsesOf(k) == ranges[k].uses
IsStackUse(u) ==
    /\ u.operand.constraint = Stack
    /\ u.operand.kind = "Use"
    /\ u.slot = SLOT_NONE
IsGhostUse(u) == u.operand.constraint.t = "FixedReg" /\ u.slot = SLOT_NONE
BlockEntries == {block_entry(b) : b \in Blocks}

\* C1: after compute_liveness returns Ok, every vreg's range list is in
\* ascending order and non-overlapping (each entry's `to` is at most the next
\* entry's `from`), and every entry's stored range equals the range of the
\* live-range record it indexes.
VRegRangesAscendingAndRefreshed ==
    Ok => \A v \in VRegs :
            LET list == vregs[v].ranges
            IN /\ \A k \in 2..Len(list) :
                     /\ list[k - 1].range.from <= list[k].range.from
                     /\ list[k - 1].range.to <= list[k].range.from
               /\ \A k \in 1..Len(list) : list[k].range = ranges[list[k].index].range

\* A vreg ends with two ranges, one of them trimmed at a def after its entry
\* was stored.
VRegRangesWitness ==
    /\ Ok
    /\ \E v \in VRegs :
          /\ Len(vregs[v].ranges) >= 2
          /\ \E k \in 1..Len(vregs[v].ranges) :
                /\ ranges[vregs[v].ranges[k].index].StartsAtDef
                /\ Len(ranges[vregs[v].ranges[k].index].uses) >= 2
                /\ vregs[v].ranges[k].range.from \notin BlockEntries

\* C2: after compute_liveness returns Ok, every use stored in a live range has
\* its program point inside the range: range.from <= use.pos < range.to.
UsesWithinRange ==
    Ok => \A k \in 1..NumRanges :
            \A i \in 1..Len(UsesOf(k)) :
                /\ ranges[k].range.from <= UsesOf(k)[i].pos
                /\ UsesOf(k)[i].pos < ranges[k].range.to

\* A range trimmed at the ghost def of a pinned move holds that ghost use and a
\* safepoint stack use.
UsesWithinRangeWitness ==
    /\ Ok
    /\ \E k \in 1..NumRanges :
          /\ ranges[k].StartsAtDef
          /\ ranges[k].range.from \notin BlockEntries
          /\ \E i \in 1..Len(UsesOf(k)) : IsGhostUse(UsesOf(k)[i])
          /\ \E i \in 1..Len(UsesOf(k)) : IsStackUse(UsesOf(k)[i])

\* C3: after compute_liveness returns Ok, the uses of every live range are in
\* non-decreasing order of program point.
UsesSorted ==
    Ok => \A k \in 1..NumRanges :
            \A i, j \in 1..Len(UsesOf(k)) :
                i < j => UsesOf(k)[i].pos <= UsesOf(k)[j].pos

\* A range coalesced over two blocks holds a safepoint stack use between
\* operand uses of the two blocks.
UsesSortedWitness ==
    /\ Ok
    /\ \E k \in 1..NumRanges :
          \E i, j, l \in 1..Len(UsesOf(k)) :
              /\ i < j /\ j < l
              /\ IsStackUse(UsesOf(k)[j])
              /\ UsesOf(k)[i].pos < UsesOf(k)[j].pos
              /\ UsesOf(k)[j].pos < UsesOf(k)[l].pos
              /\ insn_block(PInst(UsesOf(k)[i].pos)) # insn_block(PInst(UsesOf(k)[l].pos))

SolverFinished == pc \notin {"start", "solve"} \/ (pc = "solve" /\ workqueue = <<>>)

\* C4: when the worklist solver finishes, for every block b in the postorder
\* livein[b] is the backward transfer of b applied to the final liveout[b],
\* every predecessor's liveout contains livein[b], and a liveout holds no vreg
\* outside the liveins of the blocks it precedes.
LiveinsArePreciseFixpoint ==
    SolverFinished =>
        /\ \A b \in SeqSet(postorder) :
              /\ liveins[b] = BlockTransfer(b, liveouts[b])
              /\ \A p \in SeqSet(block_preds(b)) : liveins[b] \subseteq liveouts[p]
        /\ \A p \in Blocks :
              liveouts[p] \subseteq
                  UNION {liveins[b] : b \in {s \in Blocks : p \in SeqSet(block_preds(s))}}

\* The solver finished after taking a block off the queue a second time, with
\* a vreg live around the loop.
LiveinsFixpointWitness ==
    /\ SolverFinished
    /\ livein_iterations > Len(postorder)
    /\ \E b \in Blocks : liveins[b] # {} /\ liveouts[b] # {}

\* C5: compute_liveness returns Err(EntryLivein) exactly when the solver's
\* live-in set of the entry block is non-empty.
EntryLiveinIffEntryLive ==
    pc = "done" => (result = "EntryLivein" <=> liveins[entry_block] # {})

\* The error is returned for a function whose entry block passes a vreg it
\* never defined to a later block.
EntryLiveinWitness ==
    /\ result = "EntryLivein"
    /\ num_blocks > 1
    /\ liveouts[entry_block] # {}

\* C6: every call to add_liverange_to_vreg made during compute_liveness
\* satisfies the asserted precondition (the vreg's list is empty or the new
\* range's `to` is at most the `from` of the range added last), so the
\* assertion never fails.
AddLiverangeAssertionNeverFails == panic # "add_liverange_to_vreg"

SafepointInsts == {s \in 0..(num_insts - 1) : requires_refs_on_stack(s)}
RefVRegs == {v \in SeqSet(func.reftype_vregs) : ~is_pinned(v)}
StackUsesAt(k, pos) ==
    Cardinality({i \in 1..Len(UsesOf(k)) : IsStackUse(UsesOf(k)[i]) /\ UsesOf(k)[i].pos = pos})

FixedPRegsAt(uses, pos) ==
    {uses[i].operand.constraint.r :
        i \in {j \in 1..Len(uses) : uses[j].pos = pos
                                     /\ uses[j].operand.constraint.t = "FixedReg"}}

Demoted(k) ==
    {i \in 1..Len(UsesOf(k)) : ranges'[k].uses[i].operand # UsesOf(k)[i].operand}

FixupPassDone == pc = "sort" \/ (pc = "done" /\ Ok)

OneFixedPRegPerPoint ==
    FixupPassDone =>
        \A k \in 1..NumRanges : \A i \in 1..Len(UsesOf(k)) :
            Cardinality(FixedPRegsAt(UsesOf(k), UsesOf(k)[i].pos)) <= 1

RECURSIVE SumOver(_, _)
SumOver(S, f) ==
    IF S = {} THEN 0
    ELSE LET x == CHOOSE y \in S : TRUE IN f[x] + SumOver(S \ {x}, f)

DemotionsRecorded ==
    (pc = "fixup" /\ pc' = "sort") =>
        /\ Len(ranges') = NumRanges
        /\ \A k \in 1..NumRanges :
              /\ Len(ranges'[k].uses) = Len(UsesOf(k))
              /\ \A i \in 1..Len(UsesOf(k)) :
                    LET u == UsesOf(k)[i]
                        n == ranges'[k].uses[i]
                        kept == FixedPRegsAt(ranges'[k].uses, u.pos)
                    IN /\ n.pos = u.pos /\ n.slot = u.slot
                       /\ i \in Demoted(k) =>
                             /\ u.operand.constraint.t = "FixedReg"
                             /\ n.operand = [u.operand EXCEPT !.constraint = Reg]
                             /\ \E q \in kept :
                                   /\ q # u.operand.constraint.r
                                   /\ \E f \in 1..Len(multi_fixed_reg_fixups') :
                                         multi_fixed_reg_fixups'[f] =
                                             <<u.pos, q, u.operand.constraint.r, u.slot>>
                       /\ (u.operand.constraint.t = "FixedReg"
                           /\ u.operand.constraint.r \in kept) => i \notin Demoted(k)
        /\ Len(multi_fixed_reg_fixups') =
               SumOver(1..NumRanges, [k \in 1..NumRanges |-> Cardinality(Demoted(k))])
        /\ \A f \in 1..Len(multi_fixed_reg_fixups') :
              multi_fixed_reg_fixups'[f][2] # multi_fixed_reg_fixups'[f][3]

\* C8: after the multi-fixed-reg fixup pass, within every live range the uses
\* at one program point that still carry a FixedReg constraint name one preg;
\* the pass demotes a use only from FixedReg(q) to Reg, with an entry
\* (pos, kept preg, q, slot) in multi_fixed_reg_fixups; uses of the kept preg
\* stay as they are and there is one fixup per demotion.
MultiFixedRegFixupCorrect == []OneFixedPRegPerPoint /\ [][DemotionsRecorded]_vars

\* The pass demoted one use of a range that keeps a FixedReg use at the same
\* program point, and left a second use of the kept preg alone.
MultiFixedRegFixupWitness ==
    /\ pc = "sort"
    /\ \E f \in 1..Len(multi_fixed_reg_fixups) :
          \E k \in 1..NumRanges : \E i, j \in 1..Len(UsesOf(k)) :
              /\ i # j
              /\ UsesOf(k)[i].pos = multi_fixed_reg_fixups[f][1]
              /\ UsesOf(k)[i].operand.constraint = FixedReg(multi_fixed_reg_fixups[f][2])
              /\ UsesOf(k)[j].pos = multi_fixed_reg_fixups[f][1]
              /\ UsesOf(k)[j].operand.constraint = Reg
              /\ UsesOf(k)[j].slot = multi_fixed_reg_fixups[f][4]

RECURSIVE ParamsBefore(_, _)
ParamsBefore(succs, s) ==
    IF succs = <<>> \/ Head(succs) = s THEN 0
    ELSE Len(block_params(Head(succs))) + ParamsBefore(Tail(succs), s)

BranchArg(p, s, j) ==
    inst_operands(func.blocks[p].last)[
        branch_blockparam_arg_offset(p) + ParamsBefore(block_succs(p), s) + j].vreg

\* C10: after compute_liveness, for every CFG edge p -> s and every blockparam
\* bp of s, blockparam_ins holds exactly one entry (bp, s, p) and, when p ends
\* in a branch, blockparam_outs holds exactly one entry for (p, s, bp), whose
\* source vreg is the branch operand at the arg offset plus the blockparams
\* of earlier successors and the earlier params of s.
BlockparamsWired ==
    Ok => \A s \in Blocks : \A p \in SeqSet(block_preds(s)) :
            \A j \in 1..Len(block_params(s)) :
                LET bp == block_params(s)[j]
                IN /\ CountIn(blockparam_ins, <<bp, s, p>>) = 1
                   /\ is_branch(func.blocks[p].last) =>
                         /\ CountIn(blockparam_outs, <<BranchArg(p, s, j), p, s, bp>>) = 1
                         /\ Cardinality({i \in 1..Len(blockparam_outs) :
                                            /\ blockparam_outs[i][2] = p
                                            /\ blockparam_outs[i][3] = s
                                            /\ blockparam_outs[i][4] = bp}) = 1

\* A branch with a condition operand passes arguments to two successors, one
\* of them with two blockparams.
BlockparamsWiredWitness ==
    /\ Ok
    /\ \E p \in Blocks :
          /\ branch_blockparam_arg_offset(p) > 0
          /\ Len(block_succs(p)) = 2
          /\ Len(block_params(block_succs(p)[2])) = 2
          /\ Len(blockparam_outs) >= 3

\* The moves handled as program moves: distinct vregs, neither pinned.
ProgMoveInsts ==
    {i \in 0..(num_insts - 1) :
        /\ is_move(i)
        /\ inst_operands(i)[1].vreg # inst_operands(i)[2].vreg
        /\ ~is_pinned(inst_operands(i)[1].vreg)
        /\ ~is_pinned(inst_operands(i)[2].vreg)}
MoveSrc(i) == inst_operands(i)[1].vreg
MoveDst(i) == inst_operands(i)[2].vreg

\* The ranges of vreg v (arena indices) that contain point p, in arena rs.
RangesAt(rs, v, p) ==
    {k \in 1..Len(rs) : rs[k].vreg = v /\ ContainsPoint(rs[k].range, p)}

ProgMoveListsComplete ==
    Ok => /\ \A i \in ProgMoveInsts :
                /\ CountIn(prog_move_srcs, [key |-> <<MoveSrc(i), i>>, alloc |-> "none"]) = 1
                /\ Cardinality({k \in 1..Len(prog_move_srcs) :
                                   prog_move_srcs[k].key[2] = i}) = 1
                /\ CountIn(prog_move_dsts,
                           [key |-> <<MoveDst(i), i + 1>>, alloc |-> "none"]) = 1
                /\ Cardinality({k \in 1..Len(prog_move_dsts) :
                                   prog_move_dsts[k].key[2] = i + 1}) = 1
          /\ \A d \in 1..Len(prog_move_dsts) :
                Cardinality({k \in 1..Len(prog_move_srcs) :
                    prog_move_srcs[k].key[2] = prog_move_dsts[d].key[2] - 1}) = 1

ProgMoveStepRecorded ==
    (pc = "inst" /\ cur_inst \in ProgMoveInsts /\ panic' = "none") =>
        /\ prog_move_srcs' =
               Append(prog_move_srcs, [key |-> <<MoveSrc(cur_inst), cur_inst>>, alloc |-> "none"])
        /\ prog_move_dsts' =
               Append(prog_move_dsts,
                      [key |-> <<MoveDst(cur_inst), cur_inst + 1>>, alloc |-> "none"])
        /\ IF MoveSrc(cur_inst) \notin live
           THEN \E sr \in RangesAt(ranges', MoveSrc(cur_inst), After(cur_inst)) :
                \E dr \in RangesAt(ranges', MoveDst(cur_inst), Before(cur_inst + 1)) :
                    /\ prog_move_merges' = Append(prog_move_merges, <<sr, dr>>)
                    /\ RangesAt(ranges', MoveSrc(cur_inst), After(cur_inst)) = {sr}
                    /\ RangesAt(ranges', MoveDst(cur_inst), Before(cur_inst + 1)) = {dr}
           ELSE prog_move_merges' = prog_move_merges

\* C11: every move between distinct unpinned vregs gets exactly one
\* prog_move_srcs entry ((src, inst), none) and one prog_move_dsts entry
\* ((dst, inst+1), none), so every dsts entry at inst+1 has exactly one srcs
\* entry at inst; and the move adds the pair (src range, dst range) to
\* prog_move_merges if and only if src was not live below the move.
ProgMovesRecorded == []ProgMoveListsComplete /\ [][ProgMoveStepRecorded]_vars

\* Two program moves were recorded, one whose source was dead below it and
\* one whose source was live below it.
ProgMovesRecordedWitness ==
    /\ Ok
    /\ Len(prog_move_srcs) = 2
    /\ Len(prog_move_merges) = 1

\* The worklist loop run to completion from the collections in `st`.
RECURSIVE RunSolver(_)
RunSolver(st) ==
    IF st.workqueue = <<>> THEN st ELSE RunSolver(SolverIteration(st))

\* C12: running the solver again from the live-in and live-out sets the first
\* run produced, with every block of the postorder queued, changes no set.
SecondSolverRunChangesNothing ==
    SolverFinished =>
        LET again == RunSolver([liveins |-> liveins, liveouts |-> liveouts,
                                workqueue |-> postorder,
                                workqueue_set |-> SeqSet(postorder)])
        IN /\ again.liveins = liveins
           /\ again.liveouts = liveouts

\* The first run needed to revisit a block of a four-block loop and left
\* vregs live across blocks.
SecondSolverRunWitness ==
    /\ pc = "done"
    /\ num_blocks = 4
    /\ livein_iterations > Len(postorder)
    /\ \E b \in Blocks : liveins[b] # {} /\ liveins[b] # liveouts[b]

\* The operands of the function that mention vreg v, as <<inst, index>>.
Mentions(v) ==
    {m \in (0..(num_insts - 1)) \X (1..Cardinality(VRegs)) :
        /\ m[2] <= Len(inst_operands(m[1]))
        /\ inst_operands(m[1])[m[2]].vreg = v}
InstsOf(b) == func.blocks[b].first..func.blocks[b].last
RangeList(v) == [k \in 1..Len(vregs[v].ranges) |-> vregs[v].ranges[k].range]
IsBlockparam(v) == \E b \in Blocks : v \in SeqSet(block_params(b))

\* <<v, b0, b1, d, u>>: b0's only successor edge into b1 is b1's only
\* predecessor edge, and v is mentioned by exactly two operands, a Def Late at
\* d in b0 and a Use Early at the non-branch instruction u in b1.
AcrossBlockCases ==
    {c \in VRegs \X Blocks \X Blocks \X (0..(num_insts - 1)) \X (0..(num_insts - 1)) :
        LET v == c[1]  b0 == c[2]  b1 == c[3]  d == c[4]  u == c[5]
        IN /\ b0 # b1
           /\ block_preds(b1) = <<b0>>
           /\ d \in InstsOf(b0) /\ u \in InstsOf(b1)
           /\ ~is_move(d) /\ ~is_move(u) /\ ~is_branch(u)
           /\ ReusedInput(inst_operands(u)) = -1
           /\ ~is_pinned(v) /\ ~IsBlockparam(v)
           /\ \E kd, ku \in 1..Cardinality(VRegs) :
                 /\ Mentions(v) = {<<d, kd>>, <<u, ku>>}
                 /\ inst_operands(d)[kd].kind = "Def"
                 /\ inst_operands(d)[kd].pos = "Late"
                 /\ inst_operands(u)[ku].kind = "Use"
                 /\ inst_operands(u)[ku].pos = "Early"}

\* As stated: two ranges in every layout.
AcrossBlockTwoRangesAlways ==
    Ok => \A c \in AcrossBlockCases :
            LET v == c[1]  b0 == c[2]  b1 == c[3]  d == c[4]  u == c[5]
            IN /\ v \in liveins[b1]
               /\ v \in liveouts[b0]
               /\ RangeList(v) = <<CodeRange(After(d), PNext(block_exit(b0))),
                                   CodeRange(block_entry(b1), PNext(Before(u)))>>

\* C13: for blocks b0 -> b1 with v defined in b0 and used in b1, livein(b1)
\* and liveout(b0) contain v; v has the two ranges
\* [After(def), block_exit(b0).next()) and [block_entry(b1), Before(use).next())
\* when b1 does not start where b0 ends, and the single range
\* [After(def), Before(use).next()) when b1 immediately follows b0.
AcrossBlockRanges ==
    Ok => \A c \in AcrossBlockCases :
            LET v == c[1]  b0 == c[2]  b1 == c[3]  d == c[4]  u == c[5]
            IN /\ v \in liveins[b1]
               /\ v \in liveouts[b0]
               /\ RangeList(v) =
                     IF PNext(block_exit(b0)) = block_entry(b1)
                     THEN <<CodeRange(After(d), PNext(Before(u)))>>
                     ELSE <<CodeRange(After(d), PNext(block_exit(b0))),
                            CodeRange(block_entry(b1), PNext(Before(u)))>>

\* A vreg defined in b0 and used in the block laid out right after it ends
\* with one range.
AcrossBlockRangesWitness ==
    /\ Ok
    /\ \E c \in AcrossBlockCases :
          /\ PNext(block_exit(c[2])) = block_entry(c[3])
          /\ Len(vregs[c[1]].ranges) = 1

\* A vreg defined in b0 and used in a successor laid out further down ends
\* with two ranges.
AcrossBlockApartWitness ==
    /\ Ok
    /\ \E c \in AcrossBlockCases :
          /\ PNext(block_exit(c[2])) # block_entry(c[3])
          /\ Len(vregs[c[1]].ranges) = 2

\* <<v, b, i0, i1>>: within block b, v is mentioned by exactly two operands,
\* a Def Late at i0 and a Use Early at the later non-branch instruction i1,
\* and v is not a reference live at a safepoint.
SingleBlockCases ==
    {c \in VRegs \X Blocks \X (0..(num_insts - 1)) \X (0..(num_insts - 1)) :
        LET v == c[1]  b == c[2]  i0 == c[3]  i1 == c[4]
        IN /\ i0 \in InstsOf(b) /\ i1 \in InstsOf(b) /\ i0 < i1
           /\ ~is_move(i0) /\ ~is_move(i1) /\ ~is_branch(i1)
           /\ ReusedInput(inst_operands(i1)) = -1
           /\ ~is_pinned(v) /\ ~IsBlockparam(v)
           /\ is_ref(v) => \A i \in (i0 + 1)..i1 : ~requires_refs_on_stack(i)
           /\ \E kd, ku \in 1..Cardinality(VRegs) :
                 /\ Mentions(v) = {<<i0, kd>>, <<i1, ku>>}
                 /\ inst_operands(i0)[kd].kind = "Def"
                 /\ inst_operands(i0)[kd].pos = "Late"
                 /\ inst_operands(i1)[ku].kind = "Use"
                 /\ inst_operands(i1)[ku].pos = "Early"}

\* Block b mentions no vreg but v.
OnlyVReg(b, v) ==
    \A i \in InstsOf(b) : \A k \in 1..Len(inst_operands(i)) : inst_operands(i)[k].vreg = v

\* C14: for a block with i0 defining v (Def, Late) and i1 using v (Use, Early)
\* and v not live-out, v has exactly one live range, equal to
\* [After(i0), Before(i1).next()), with StartsAtDef set, holding one use at
\* Before(i1); v is not live-in, and the block's livein is empty when the
\* block mentions no other vreg.
SingleBlockDefUse ==
    Ok => \A c \in SingleBlockCases :
            LET v == c[1]  b == c[2]  i0 == c[3]  i1 == c[4]
            IN /\ v \notin liveouts[b]
               /\ RangeList(v) = <<CodeRange(After(i0), PNext(Before(i1)))>>
               /\ LET lr == ranges[vregs[v].ranges[1].index]
                  IN /\ lr.StartsAtDef
                     /\ lr.vreg = v
                     /\ Cardinality({k \in 1..Len(lr.uses) :
                                        lr.uses[k].operand.kind = "Use"}) = 1
                     /\ \E k \in 1..Len(lr.uses) :
                           /\ lr.uses[k].operand.kind = "Use"
                           /\ lr.uses[k].pos = Before(i1)
               /\ v \notin liveins[b]
               /\ OnlyVReg(b, v) => liveins[b] = {}

\* A one-block function made of a def of v0 and a later use of it.
SingleBlockDefUseWitness ==
    /\ Ok
    /\ num_blocks = 1
    /\ \E c \in SingleBlockCases : OnlyVReg(c[2], c[1]) /\ Len(ranges) = 1

\* The dst range covering Before(inst+1) starts there and is flagged, and src
\* has a range covering After(inst), in arena rs.
MoveRangesShape(rs, i) ==
    /\ \E dr \in RangesAt(rs, MoveDst(i), Before(i + 1)) :
          /\ RangesAt(rs, MoveDst(i), Before(i + 1)) = {dr}
          /\ rs[dr].range.from = Before(i + 1)
          /\ rs[dr].StartsAtDef
    /\ RangesAt(rs, MoveSrc(i), After(i)) # {}

\* The ranges of v in arena rs that begin at point p.
RangesFrom(rs, v, p) == {k \in 1..Len(rs) : rs[k].vreg = v /\ rs[k].range.from = p}

MoveRangesFinal == Ok => \A i \in ProgMoveInsts : MoveRangesShape(ranges, i)

\* As stated: a dead source's range always ends at Before(inst+1).
MoveStepDeadSrcEndsAtMove ==
    (pc = "inst" /\ cur_inst \in ProgMoveInsts /\ panic' = "none") =>
        /\ MoveRangesShape(ranges', cur_inst)
        /\ MoveSrc(cur_inst) \notin live =>
              \A sr \in RangesAt(ranges', MoveSrc(cur_inst), After(cur_inst)) :
                  ranges'[sr].range.to = Before(cur_inst + 1)
MoveStepRanges ==
    (pc = "inst" /\ cur_inst \in ProgMoveInsts /\ panic' = "none") =>
        /\ MoveRangesShape(ranges', cur_inst)
        /\ MoveSrc(cur_inst) \notin live =>
              \A sr \in RangesAt(ranges', MoveSrc(cur_inst), After(cur_inst)) :
                  LET next == RangesFrom(ranges, MoveSrc(cur_inst), Before(cur_inst + 1))
                  IN IF next = {}
                     THEN ranges'[sr].range.to = Before(cur_inst + 1)
                     ELSE /\ sr \in next
                          /\ ranges'[sr].range.to = ranges[sr].range.to
                          /\ ranges'[sr].range.to > Before(cur_inst + 1)

TwoFixedUseCases ==
    {c \in (0..(num_insts - 1)) \X (0..2) \X (0..2) :
        LET i == c[1]  k0 == c[2]  k1 == c[3]
            ops == inst_operands(i)
            ri == ReusedInput(ops)
            b == insn_block(i)
        IN /\ ~is_move(i) /\ ~is_branch(i)
           /\ k0 < k1 /\ k1 < Len(ops)
           /\ ops[k0 + 1].kind = "Use" /\ ops[k1 + 1].kind = "Use"
           /\ ops[k0 + 1].vreg = ops[k1 + 1].vreg
           /\ OperandPoint(b, i, k0, ri) = OperandPoint(b, i, k1, ri)
           /\ ops[k0 + 1].constraint.t = "FixedReg"
           /\ ops[k1 + 1].constraint.t = "FixedReg"
           /\ ops[k0 + 1].constraint.r # ops[k1 + 1].constraint.r
           /\ \A k \in 0..(Len(ops) - 1) :
                 (/\ k \notin {k0, k1}
                  /\ ops[k + 1].vreg = ops[k0 + 1].vreg
                  /\ OperandPoint(b, i, k, ri) = OperandPoint(b, i, k0, ri))
                 => ops[k + 1].constraint.t # "FixedReg"
           /\ \A r \in RangesAt(ranges, ops[k0 + 1].vreg, OperandPoint(b, i, k0, ri)) :
                 \A j \in 1..Len(UsesOf(r)) : ~IsStackUse(UsesOf(r)[j])}
TwoFixedPos(c) ==
    OperandPoint(insn_block(c[1]), c[1], c[2], ReusedInput(inst_operands(c[1])))
TwoFixedVReg(c) == inst_operands(c[1])[c[2] + 1].vreg
TwoFixedPReg(c, k) == inst_operands(c[1])[k + 1].constraint.r

\* The constraint now stored for operand `slot` of the instruction at `pos`.
StoredConstraints(v, pos, slot) ==
    UNION {{UsesOf(r)[j].operand.constraint :
               j \in {n \in 1..Len(UsesOf(r)) :
                         UsesOf(r)[n].pos = pos /\ UsesOf(r)[n].slot = slot}}
           : r \in RangesAt(ranges, v, pos)}

DeadDefCases ==
    {c \in VRegs \X (0..(Cardinality(VRegs) - 1)) :
        /\ pc = "inst"
        /\ ~is_move(cur_inst)
        /\ c[2] < Len(inst_operands(cur_inst))
        /\ inst_operands(cur_inst)[c[2] + 1].kind = "Def"
        /\ \A k \in 1..Len(inst_operands(cur_inst)) :
              inst_operands(cur_inst)[k].vreg = c[1] <=> k = c[2] + 1
        /\ c[1] \notin live
        /\ ~is_pinned(c[1])}
DeadDefPos(c) ==
    OperandPoint(cur_block, cur_inst, c[2], ReusedInput(inst_operands(cur_inst)))

\* As stated: the trivial range in every placement.
DeadDefStepTrivial ==
    panic' = "none" => \A c \in DeadDefCases :
        \E r \in 1..Len(ranges') :
            /\ ranges'[r].vreg = c[1]
            /\ ranges'[r].range = CodeRange(DeadDefPos(c), PNext(DeadDefPos(c)))
            /\ ranges'[r].StartsAtDef
DeadDefStep ==
    panic' = "none" => \A c \in DeadDefCases :
        LET pos == DeadDefPos(c)
            next == RangesFrom(ranges, c[1], PNext(pos))
            created == {r \in (Len(ranges) + 1)..Len(ranges') : ranges'[r].vreg = c[1]}
        IN IF next = {}
           THEN /\ Cardinality(created) = 1
                /\ \A r \in created :
                      /\ ranges'[r].range = CodeRange(pos, PNext(pos))
                      /\ ranges'[r].StartsAtDef
           ELSE /\ created = {}
                /\ \A r \in next :
                      /\ ranges'[r].range = CodeRange(pos, ranges[r].range.to)
                      /\ ranges'[r].StartsAtDef
                /\ RangesAt(ranges', c[1], pos) = next

TrivialMoveInsts ==
    {i \in 0..(num_insts - 1) :
        is_move(i) /\ inst_operands(i)[1].vreg = inst_operands(i)[2].vreg}

\* The live set the solver holds when its reverse walk over the block of inst
\* reaches inst, started from that block's current liveout.
LiveBelow(inst) ==
    InstsTransfer(liveouts[insn_block(inst)], func.blocks[insn_block(inst)].last, inst + 1)

\* The same-vreg moves of the block the solver takes off the queue next.
PendingTrivialMoves ==
    {i \in TrivialMoveInsts :
        pc = "solve" /\ workqueue # <<>> /\ insn_block(i) = Head(workqueue)}

TrivialMoveStepUnchanged ==
    (pc = "inst" /\ cur_inst \in TrivialMoveInsts) =>
        /\ live' = live
        /\ ranges' = ranges
        /\ vregs' = vregs
        /\ vreg_ranges' = vreg_ranges
        /\ prog_move_srcs' = prog_move_srcs
        /\ prog_move_dsts' = prog_move_dsts
        /\ prog_move_merges' = prog_move_merges
        /\ inserted_moves' = inserted_moves
        /\ panic' = panic

\* C19: during range construction, the step for a move whose source and
\* destination are the same vreg leaves the local live set, every live range
\* and use list, the per-vreg current-range table, the
\* prog_move_srcs/dsts/merges lists and the inserted edit moves unchanged.
TrivialMoveSkipped == [][TrivialMoveStepUnchanged]_vars

\* The scan has passed a same-vreg move that sits below another instruction
\* and above live ranges built earlier in the scan.
TrivialMoveSkippedWitness ==
    /\ pc = "inst"
    /\ cur_inst + 1 \in TrivialMoveInsts
    /\ cur_inst + 1 < func.blocks[cur_block].last - 1
    /\ ranges # <<>>
    /\ prog_move_srcs = <<>>

\* <<inst, k>>: operand k (0-based) of the non-move, non-branch instruction is
\* a Use at Early.
EarlyUseOperands ==
    {c \in (0..(num_insts - 1)) \X (0..(Cardinality(VRegs) - 1)) :
        /\ ~is_move(c[1]) /\ ~is_branch(c[1])
        /\ c[2] < Len(inst_operands(c[1]))
        /\ inst_operands(c[1])[c[2] + 1].kind = "Use"
        /\ inst_operands(c[1])[c[2] + 1].pos = "Early"}

\* The indices named by the Reuse constraints of the instruction.
ReuseIndices(inst) ==
    {inst_operands(inst)[k].constraint.r :
        k \in {j \in 1..Len(inst_operands(inst)) :
                  inst_operands(inst)[j].constraint.t = "Reuse"}}

\* The index named by the Reuse constraint of the lowest-numbered operand
\* that has one, or -1.
FirstReuseIndex(inst) ==
    LET R == {j \in 1..Len(inst_operands(inst)) :
                 inst_operands(inst)[j].constraint.t = "Reuse"}
    IN IF R = {} THEN -1
       ELSE inst_operands(inst)[CHOOSE j \in R : \A n \in R : j <= n].constraint.r

\* The points at which uses of operand k of inst are stored, over all ranges.
RecordedAt(inst, k) ==
    UNION {{UsesOf(r)[j].pos :
               j \in {n \in 1..Len(UsesOf(r)) :
                         /\ UsesOf(r)[n].slot = k
                         /\ PInst(UsesOf(r)[n].pos) = inst
                         /\ UsesOf(r)[n].operand.vreg = inst_operands(inst)[k + 1].vreg}}
           : r \in 1..NumRanges}

\* Operand k of inst is stored once, at point p, in a range that covers p.
RecordedOnceAt(inst, k, p) ==
    /\ RecordedAt(inst, k) = {p}
    /\ \E r \in RangesAt(ranges, inst_operands(inst)[k + 1].vreg, p) :
          \E j \in 1..Len(UsesOf(r)) : UsesOf(r)[j].slot = k /\ UsesOf(r)[j].pos = p

InstsNonDecreasing(s) == \A k \in 2..Len(s) : s[k - 1].key[2] <= s[k].key[2]

\* Along list s the keys (vreg, inst) ascend lexicographically.
KeysAscending(s) ==
    \A k \in 2..Len(s) :
        \/ s[k - 1].key[1] < s[k].key[1]
        \/ s[k - 1].key[1] = s[k].key[1] /\ s[k - 1].key[2] <= s[k].key[2]

\* The unsorted form: sorted by instruction.
ProgMovesSortedByInst ==
    Ok => InstsNonDecreasing(prog_move_srcs) /\ InstsNonDecreasing(prog_move_dsts)

\* C21: after compute_liveness, prog_move_srcs and prog_move_dsts are each
\* sorted by their key (vreg, inst): the vreg index is non-decreasing along
\* the list and, among entries of one vreg, the instruction index is
\* non-decreasing; across vregs the instruction index may decrease.
ProgMovesSortedByKey ==
    Ok => KeysAscending(prog_move_srcs) /\ KeysAscending(prog_move_dsts)

\* Two moves were recorded and the sorted source list names the later
\* instruction first.
ProgMovesSortedWitness ==
    /\ Ok
    /\ Len(prog_move_srcs) = 2
    /\ prog_move_srcs[1].key[2] > prog_move_srcs[2].key[2]

\* The scan is under way and no assertion has failed.
Scanning == pc \in {"block_begin", "inst", "block_end"} /\ panic = "none"

\* Every range [from, to) over the function's program points.
AllCodeRanges ==
    {CodeRange(f, t) : f \in 0..(2 * num_insts), t \in 1..(2 * num_insts + 1)}

\* The arena index of the range most recently added to v's list.
LastIndex(v) == vregs[v].ranges[Len(vregs[v].ranges)].index

\* The outcome of add_liverange_to_vreg(v, r) when it creates a range.
CreatesRange(a, v, r) ==
    /\ Len(a.ranges) = Len(ranges) + 1
    /\ SubSeq(a.ranges, 1, Len(ranges)) = ranges
    /\ a.ranges[Len(a.ranges)] = [LiveRange(r) EXCEPT !.vreg = v]
    /\ a.vregs = [vregs EXCEPT ![v].ranges =
                     Append(@, [range |-> r, index |-> Len(ranges) + 1])]
    /\ a.ret = Len(ranges) + 1
    /\ a.panic = "none"

\* The outcome of add_liverange_to_vreg(v, r) when it extends the last range.
ExtendsRange(a, v, r) ==
    /\ a.ranges = [ranges EXCEPT ![LastIndex(v)].range.from = r.from]
    /\ a.ranges[LastIndex(v)].range.to = ranges[LastIndex(v)].range.to
    /\ a.ranges[LastIndex(v)].uses = ranges[LastIndex(v)].uses
    /\ a.ranges[LastIndex(v)].StartsAtDef = ranges[LastIndex(v)].StartsAtDef
    /\ a.vregs = vregs
    /\ a.ret = LastIndex(v)
    /\ a.panic = "none"

\* C22: add_liverange_to_vreg(vreg, r): if the vreg has no ranges or r.to is
\* strictly below the `from` of the most recently added range, exactly one new
\* range record is appended to the arena with vreg set and (r, idx) is pushed
\* on the vreg's list; if r.to equals that `from`, no record is created, only
\* the `from` of the most recent range is set to r.from, its `to`, uses and
\* flags are unchanged, and its index is returned.
AddLiverangeCreatesOrExtends ==
    Scanning => \A v \in VRegs : \A r \in AllCodeRanges :
        LET a == add_liverange_to_vreg(Env, v, r)
        IN IF vregs[v].ranges = <<>>
           THEN CreatesRange(a, v, r)
           ELSE IF r.to < ranges[LastIndex(v)].range.from
           THEN CreatesRange(a, v, r)
           ELSE IF r.to = ranges[LastIndex(v)].range.from
           THEN ExtendsRange(a, v, r)
           ELSE a.panic # "none"

\* The scan has extended a range that holds a use: the range now begins below
\* the `from` its list entry was stored with.
AddLiverangeWitness ==
    /\ Scanning
    /\ \E v \in VRegs :
          /\ Len(vregs[v].ranges) >= 2
          /\ ranges[LastIndex(v)].range.from < vregs[v].ranges[Len(vregs[v].ranges)].range.from
          /\ ranges[LastIndex(v)].uses # <<>>

\* The moves between two different pinned vregs.
BothPinnedMoveInsts ==
    {i \in 0..(num_insts - 1) :
        /\ is_move(i)
        /\ MoveSrc(i) # MoveDst(i)
        /\ is_pinned(MoveSrc(i)) /\ is_pinned(MoveDst(i))}

\* The scan is about to handle a both-pinned move and handles it without a
\* failed assertion.
BothPinnedStep == pc = "inst" /\ cur_inst \in BothPinnedMoveInsts /\ panic' = "none"

\* dst is dead above the move with a range starting at After(inst); src is
\* live above the move.
BothPinnedDstAndLive ==
    /\ MoveDst(cur_inst) \notin live'
    /\ RangesFrom(ranges', MoveDst(cur_inst), After(cur_inst)) # {}
    /\ MoveSrc(cur_inst) \in live'
    /\ vreg_ranges'[MoveSrc(cur_inst)] \in 1..Len(ranges')

\* As for a Use of src at After(inst): src's range covers After(inst).
BothPinnedStepAsUse ==
    BothPinnedStep =>
        /\ BothPinnedDstAndLive
        /\ ContainsPoint(ranges'[vreg_ranges'[MoveSrc(cur_inst)]].range, After(cur_inst))
        /\ MoveSrc(cur_inst) \notin live =>
              ranges'[vreg_ranges'[MoveSrc(cur_inst)]].range
                  = CodeRange(block_entry(cur_block), PNext(After(cur_inst)))
BothPinnedAsDefAndUse == [][BothPinnedStepAsUse]_vars

BothPinnedStepRanges ==
    BothPinnedStep =>
        /\ BothPinnedDstAndLive
        /\ IF MoveSrc(cur_inst) \in live
           THEN /\ vreg_ranges'[MoveSrc(cur_inst)] = vreg_ranges[MoveSrc(cur_inst)]
                /\ ContainsPoint(ranges'[vreg_ranges'[MoveSrc(cur_inst)]].range,
                                 After(cur_inst))
           ELSE /\ ranges'[vreg_ranges'[MoveSrc(cur_inst)]].range
                       = CodeRange(block_entry(cur_block), After(cur_inst))
                /\ RangesAt(ranges', MoveSrc(cur_inst), After(cur_inst)) = {}
                /\ RangesAt(ranges', MoveSrc(cur_inst), Before(cur_inst)) # {}

\* C23: for a move between two different pinned vregs, after the move is
\* processed dst is dead above the move with its range starting at
\* After(inst) and src is live above the move, as for a Def of dst and a Use
\* of src; a src that was live below keeps its range, which covers
\* After(inst), but a newly created src range is [block_entry, After(inst)):
\* it covers Before(inst) and stops short of After(inst), unlike the range
\* [block_entry, After(inst).next()) of a Use at After(inst).
BothPinnedMoveRanges == [][BothPinnedStepRanges]_vars

\* A both-pinned move whose source was dead below it has been scanned and the
\* edit move was emitted.
BothPinnedMoveWitness ==
    /\ Ok
    /\ \E i \in BothPinnedMoveInsts :
          /\ \E k \in 1..Len(inserted_moves) : inserted_moves[k].pos = Before(i)
          /\ \E r \in 1..NumRanges :
                /\ ranges[r].vreg = MoveSrc(i)
                /\ ranges[r].range.to = After(i)

\* The moves with exactly one pinned endpoint, and that endpoint.
OnePinnedMoveInsts ==
    {i \in 0..(num_insts - 1) :
        /\ is_move(i)
        /\ MoveSrc(i) # MoveDst(i)
        /\ is_pinned(MoveSrc(i)) # is_pinned(MoveDst(i))}
PinnedEnd(i) == IF is_pinned(MoveSrc(i)) THEN MoveSrc(i) ELSE MoveDst(i)

PinnedRangesAvoidGhost ==
    Ok => \A i \in OnePinnedMoveInsts : RangesAt(ranges, PinnedEnd(i), After(i)) = {}

PinnedSrcHoleStep ==
    (/\ pc = "inst" /\ cur_inst \in OnePinnedMoveInsts /\ panic' = "none"
     /\ is_pinned(MoveSrc(cur_inst)) /\ MoveSrc(cur_inst) \in live) =>
        LET old == vreg_ranges[MoveSrc(cur_inst)]
            new == vreg_ranges'[MoveSrc(cur_inst)]
        IN /\ ranges'[old].range.from = Before(cur_inst + 1)
           /\ ranges'[old].range.to = ranges[old].range.to
           /\ new = Len(ranges')
           /\ new > Len(ranges)
           /\ ranges'[new].vreg = MoveSrc(cur_inst)
           /\ ranges'[new].range = CodeRange(ranges[old].range.from, Before(cur_inst))
           /\ RangesAt(ranges', MoveSrc(cur_inst), After(cur_inst)) = {}

\* C24: for every move at inst with exactly one pinned endpoint, after
\* compute_liveness no live range of the pinned vreg contains After(inst), the
\* point of the ghost FixedReg operand on the other vreg; and when the pinned
\* source was live below, its old range is cut to start at Before(inst+1) and
\* a new range [orig_start, Before(inst)) is created in front of it.
PinnedRangesSplitAroundGhost == []PinnedRangesAvoidGhost /\ [][PinnedSrcHoleStep]_vars

\* A move from a pinned source that was live below it: the source ends with a
\* range starting at Before(inst+1) and the other vreg holds the ghost def at
\* After(inst).
PinnedRangesSplitWitness ==
    /\ Ok
    /\ \E i \in OnePinnedMoveInsts :
          /\ is_pinned(MoveSrc(i))
          /\ RangesFrom(ranges, MoveSrc(i), Before(i + 1)) # {}
          /\ \E r \in RangesAt(ranges, MoveDst(i), After(i)) :
                \E k \in 1..Len(UsesOf(r)) :
                    IsGhostUse(UsesOf(r)[k]) /\ UsesOf(r)[k].pos = After(i)
          /\ \E r \in 1..NumRanges :
                ranges[r].vreg = MoveSrc(i) /\ ranges[r].range.to = Before(i)

SolverStepMonotone ==
    (pc = "solve" /\ workqueue # <<>>) =>
        /\ \A b \in Blocks : liveouts[b] \subseteq liveouts'[b]
        /\ Len(workqueue') >= Len(workqueue) - 1
        /\ SubSeq(workqueue', 1, Len(workqueue) - 1) = Tail(workqueue)
        /\ \A k \in Len(workqueue)..Len(workqueue') :
              /\ liveouts[workqueue'[k]] # liveouts'[workqueue'[k]]
              /\ workqueue'[k] \notin SeqSet(Tail(workqueue))

\* C25: the worklist loop terminates on CFGs with loops and self-loops: the
\* queue eventually becomes empty; an iteration enqueues a block only when
\* that block's live-out set strictly grew in it; and live-out sets never
\* lose a vreg.
SolverTerminates == <>SolverFinished /\ [][SolverStepMonotone]_vars

\* The solver finished on a function with a block that is its own
\* predecessor, after taking that block off the queue more than once.
SolverTerminatesWitness ==
    /\ SolverFinished
    /\ \E b \in Blocks : b \in SeqSet(block_preds(b)) /\ liveouts[b] # {}
    /\ livein_iterations > Len(postorder)

\* C26: to_bits returns bits 31..16 of the weight's 32-bit representation (its
\* bfloat16 encoding), and from_bits puts a 16-bit value into bits 31..16 with
\* the low 16 bits zero.
PackedIsTopSixteenBits ==
    /\ [][pc = "to_bits" => packed' = [i \in 0..15 |-> spill_weight[i + 16]]]_vars
    /\ [][pc = "from_bits" =>
             spill_weight' = [i \in 0..31 |-> IF i >= 16 THEN packed[i - 16] ELSE 0]]_vars

\* C27: the reverse scan agrees with the dataflow solver: when the scan of a
\* block ends and its blockparams have been removed, the local live set equals
\* the block's livein, also with trivial moves, mods and dead defs in the block.
ScanAgreesWithSolver ==
    [][(pc = "block_end" /\ panic' = "none") => live' = liveins[cur_block]]_vars

\* C28: after compute_liveness returns Ok, every live range in the arena is
\* non-empty: its from is below its to.
AllRangesNonEmpty ==
    (pc = "done" /\ Ok) =>
        \A k \in 1..NumRanges : ranges[k].range.from < ranges[k].range.to

\* The program points at which the input function defines vreg v: a Def
\* operand's position, After(inst) of a move from a pinned source, and
\* Before(inst + 1) of a move between non-pinned vregs.
DefPoints(v) ==
    {IF inst_operands(c[1])[c[2]].pos = "Early" THEN Before(c[1]) ELSE After(c[1]) :
        c \in {d \in (0..(num_insts - 1)) \X (1..Cardinality(VRegs)) :
                 /\ ~is_move(d[1])
                 /\ d[2] <= Len(inst_operands(d[1]))
                 /\ inst_operands(d[1])[d[2]].vreg = v
                 /\ inst_operands(d[1])[d[2]].kind = "Def"}}
    \cup {After(i) : i \in {m \in 0..(num_insts - 1) :
                              /\ is_move(m)
                              /\ MoveDst(m) = v /\ MoveSrc(m) # v
                              /\ is_pinned(MoveSrc(m))}}
    \cup {Before(i + 1) : i \in {m \in 0..(num_insts - 1) :
                                   /\ is_move(m)
                                   /\ MoveDst(m) = v /\ MoveSrc(m) # v
                                   /\ ~is_pinned(MoveSrc(m)) /\ ~is_pinned(v)}}

\* C29: after compute_liveness, every live range flagged StartsAtDef begins at
\* a program point where its vreg is defined.
StartsAtDefBeginsAtDef ==
    (pc = "done" /\ Ok) =>
        \A k \in 1..NumRanges :
            ranges[k].StartsAtDef => ranges[k].range.from \in DefPoints(ranges[k].vreg)

\* C30: the two safepoint records agree: after compute_liveness, for every
\* reference-typed non-pinned vreg v and every safepoint instruction s, a range
\* of v holds a Stack use at Before(s) if and only if s is in
\* safepoints_per_vreg[v].
SafepointRecordsAgree ==
    (pc = "done" /\ Ok) =>
        \A v \in RefVRegs : \A s \in SafepointInsts :
            (\E k \in 1..Len(vregs[v].ranges) :
                 StackUsesAt(vregs[v].ranges[k].index, Before(s)) >= 1)
                <=> s \in safepoints_per_vreg[v]

====
